---- MODULE Spec2Model ----
(***************************************************************************)
(* The ownership-scoped data layer of the lifting diary: the four tables   *)
(* of src/db/schema.ts and the helper functions of data/workouts.ts,       *)
(* data/workout-exercises.ts, data/sets.ts and data/exercises.ts.          *)
(*                                                                         *)
(* A table is the set of its rows.  Every data-layer function that writes   *)
(* is one action; `ret` records the last such call (function, caller,      *)
(* target id) and what it returned or threw.  The functions that only read *)
(* are operators on the tables: the value a call would return in a state.  *)
(* The createdAt / updatedAt timestamps are bookkeeping columns that no    *)
(* query of the data layer filters on; rows are modelled without them.     *)
(***************************************************************************)
EXTENDS Integers, Sequences, FiniteSets, TLC

VARIABLES
    workouts,           \* table workouts
    workoutExercises,   \* table workout_exercises
    sets,               \* table sets
    exercises,          \* table exercises
    workoutsSeq,        \* last value issued by the identity of workouts.id
    workoutExercisesSeq,
    setsSeq,
    exercisesSeq,
    creator,            \* history: workout id -> the userId given to the create call
    assignedOrders,     \* history: workout id -> the order values given to its inserts, in turn
    ret,                \* the last data-layer call and its outcome
    tx,                 \* the open transaction: its position and its uncommitted rows
    request,            \* the server action called last: its input, position and response
    pending             \* per process: the data-layer call it is in, between two statements

vars == <<workouts, workoutExercises, sets, exercises, workoutsSeq,
          workoutExercisesSeq, setsSeq, exercisesSeq, creator, assignedOrders, ret,
          tx, request, pending>>

\* what is in flight; the calls of the data layer that are one statement, or
\* are taken as a whole, leave it alone
inFlight == <<tx, request, pending>>

tables == <<workouts, workoutExercises, sets, exercises>>

-----------------------------------------------------------------------------
(* Bounds of the model *)

\* identity values issued per table, and over the three owned tables together
MaxWorkouts == 2
MaxWorkoutExercises == 2
MaxSets == 1
MaxRows == 3
\* workout exercise ids issued in the specification of the exercise order
MaxOrderExercises == 4
\* workout and workout exercise ids issued in the specification of duplicateWorkout
MaxDuplicateRows == 5
\* exercise rows and name length in the specification of getOrCreateExercise
MaxExercises == 2
MaxNameLen == 3
\* the last day of the dashboard's calendar in the specification of the day query
MaxDay == 6
\* instants told apart within a day: its first and its last
TicksPerDay == 2

Users == {"alice", "bob"}

\* completedAt IS NULL (a nullable timestamp column)
Null == 0

Dates == {1, 2}

\* ids a call may name: the ones issued so far (stored or not), or 1 when none was
IssuedOrFirst(seq) == IF seq = 0 THEN {1} ELSE 1..seq
WorkoutIds == IssuedOrFirst(workoutsSeq)
WorkoutExerciseIds == IssuedOrFirst(workoutExercisesSeq)
SetIds == IssuedOrFirst(setsSeq)

\* exercise names as typed: "_" stands for a whitespace character
RawNames == {<<"s">>, <<"_", "s", "_">>}

-----------------------------------------------------------------------------
(* Outcomes of a call: the returned row, null, or the thrown Error *)

NoRow == [none |-> TRUE]
Row(r) == [kind |-> "row", row |-> r, msg |-> ""]
Rows(list) == [kind |-> "rows", row |-> [list |-> list], msg |-> ""]
ReturnsNull == [kind |-> "null", row |-> NoRow, msg |-> ""]
Throws(m) == [kind |-> "error", row |-> NoRow, msg |-> m]

\* results[0] || null
FirstOrNull(results) ==
    IF results = {} THEN ReturnsNull ELSE Row(CHOOSE r \in results : TRUE)

ErrWorkout == "Workout not found or access denied"
ErrWorkoutExercise == "Workout exercise not found or access denied"
ErrSet == "Set not found or access denied"
ErrForeignKey == "violates foreign key constraint"
ErrUnique == "violates unique constraint"

\* a call: the function, its userId and id arguments, its data argument, the outcome,
\* and the ids of the rows its statement removed through ON DELETE CASCADE
Call(op, userId, id, data, out) ==
    [op |-> op, userId |-> userId, id |-> id, data |-> data, out |-> out,
     cascaded |-> [workoutExercises |-> {}, sets |-> {}]]

Ids(rows) == {r.id : r \in rows}

NoData == [none |-> TRUE]
NoTransaction == [pc |-> "idle"]
\* concurrent callers of the data layer
Processes == {"p1", "p2"}
Idle == [pc |-> "idle"]
NoRequest ==
    [action |-> "none", session |-> "", input |-> NoData, pc |-> 1, calls |-> <<>>,
     response |-> [kind |-> "none", msg |-> ""], exerciseId |-> 0]

\* the orders a query may return the rows of S in under ORDER BY column
Orderings(S, column) ==
    {q \in [1..Cardinality(S) -> S] :
        \A i, j \in 1..Cardinality(S) :
            i < j => q[i] # q[j] /\ q[i][column] <= q[j][column]}

-----------------------------------------------------------------------------
(* data/workouts.ts *)

\* Mutant: the userId condition of the where clause is missing.
getWorkoutByIdForUser_NoUserFilter(ws, userId, workoutId) ==
    FirstOrNull({w \in ws : w.id = workoutId})

\* select().from(workouts).where(userId = .. AND id = ..).limit(1); results[0] || null
getWorkoutByIdForUser(ws, userId, workoutId) ==
    FirstOrNull({w \in ws : w.userId = userId /\ w.id = workoutId})

\* Mutant: the where clause is missing.
getWorkoutsForUser_NoUserFilter(ws, userId) ==
    Orderings(ws, "startedAt")

\* select().from(workouts).where(userId = ..).orderBy(startedAt): the admissible results
getWorkoutsForUser(ws, userId) ==
    Orderings({w \in ws : w.userId = userId}, "startedAt")

\* Mutant: startedAt is compared with the start of the day.
getWorkoutsForUserOnDate_StartOfDay(ws, userId, startOfDay, endOfDay) ==
    Orderings({w \in ws : /\ w.userId = userId
                          /\ w.startedAt <= startOfDay
                          /\ (w.completedAt = Null \/ w.completedAt >= startOfDay)},
              "startedAt")

\* .where(userId = .. AND startedAt <= endOfDay AND
\*        (completedAt IS NULL OR completedAt >= startOfDay)).orderBy(startedAt)
getWorkoutsForUserOnDate(ws, userId, startOfDay, endOfDay) ==
    Orderings({w \in ws : /\ w.userId = userId
                          /\ w.startedAt <= endOfDay
                          /\ (w.completedAt = Null \/ w.completedAt >= startOfDay)},
              "startedAt")

Init ==
    /\ workouts = {}
    /\ workoutExercises = {}
    /\ sets = {}
    /\ exercises = {}
    /\ workoutsSeq = 0
    /\ workoutExercisesSeq = 0
    /\ setsSeq = 0
    /\ exercisesSeq = 0
    /\ creator = <<>>
    /\ assignedOrders = <<>>
    /\ ret = Call("init", "", 0, NoData, ReturnsNull)
    /\ tx = NoTransaction
    /\ request = NoRequest
    /\ pending = [p \in Processes |-> Idle]

\* Mutant: the id of a deleted workout is issued again.
createWorkoutForUser_ReuseId(userId, data) ==
    /\ LET free == (1..(workoutsSeq + 1)) \ Ids(workouts)
           id == CHOOSE i \in free : \A j \in free : i <= j
           row == [id |-> id,
                   userId |-> userId,
                   name |-> data.name,
                   startedAt |-> data.startedAt,
                   completedAt |-> IF "completedAt" \in DOMAIN data
                                   THEN data.completedAt ELSE Null]
       IN /\ workouts' = workouts \cup {row}
          /\ workoutsSeq' = IF id > workoutsSeq THEN id ELSE workoutsSeq
          /\ creator' = IF id > workoutsSeq THEN Append(creator, userId)
                        ELSE [creator EXCEPT ![id] = userId]
          /\ assignedOrders' = IF id > workoutsSeq THEN Append(assignedOrders, <<>>)
                               ELSE [assignedOrders EXCEPT ![id] = <<>>]
          /\ ret' = Call("createWorkoutForUser", userId, row.id, NoData, Row(row))
    /\ UNCHANGED <<workoutExercises, sets, exercises, workoutExercisesSeq,
                   setsSeq, exercisesSeq>>

\* insert(workouts).values({userId, name, startedAt, completedAt || null}).returning()
createWorkoutForUser(userId, data) ==
    /\ LET row == [id |-> workoutsSeq + 1,
                   userId |-> userId,
                   name |-> data.name,
                   startedAt |-> data.startedAt,
                   completedAt |-> IF "completedAt" \in DOMAIN data
                                   THEN data.completedAt ELSE Null]
       IN /\ workouts' = workouts \cup {row}
          /\ workoutsSeq' = workoutsSeq + 1
          /\ creator' = Append(creator, userId)
          /\ assignedOrders' = Append(assignedOrders, <<>>)
          /\ ret' = Call("createWorkoutForUser", userId, row.id, NoData, Row(row))
    /\ UNCHANGED <<workoutExercises, sets, exercises, workoutExercisesSeq,
                   setsSeq, exercisesSeq>>

\* Mutant: only the first of the columns named in data is written.
SetColumns_FirstOnly(row, data) ==
    LET first == CHOOSE c \in DOMAIN data : TRUE
    IN [c \in DOMAIN row |-> IF c = first THEN data[c] ELSE row[c]]

\* .set({...data}): the columns named in data take data's values
SetColumns(row, data) ==
    [c \in DOMAIN row |-> IF c \in DOMAIN data THEN data[c] ELSE row[c]]

\* Mutant: the where clause names the id only and the row is stamped with the caller.
updateWorkoutForUser_Restamp(userId, workoutId, data) ==
    LET matched == {w \in workouts : w.id = workoutId}
        results == {[SetColumns(w, data) EXCEPT !.userId = userId] : w \in matched}
    IN /\ workouts' = (workouts \ matched) \cup results
       /\ ret' = Call("updateWorkoutForUser", userId, workoutId, data, FirstOrNull(results))
       /\ UNCHANGED <<workoutExercises, sets, exercises, workoutsSeq,
                      workoutExercisesSeq, setsSeq, exercisesSeq, creator, assignedOrders>>

\* update(workouts).set(data).where(userId = .. AND id = ..).returning()
updateWorkoutForUser(userId, workoutId, data) ==
    LET matched == {w \in workouts : w.userId = userId /\ w.id = workoutId}
        results == {SetColumns(w, data) : w \in matched}
    IN /\ workouts' = (workouts \ matched) \cup results
       /\ ret' = Call("updateWorkoutForUser", userId, workoutId, data, FirstOrNull(results))
       /\ UNCHANGED <<workoutExercises, sets, exercises, workoutsSeq,
                      workoutExercisesSeq, setsSeq, exercisesSeq, creator, assignedOrders>>

\* workout_exercises.workout_id references workouts.id ON DELETE CASCADE
CascadeWorkoutExercises(wes, ws) ==
    {we \in wes : we.workoutId \in {w.id : w \in ws}}

\* Mutant: the foreign key of sets has no ON DELETE CASCADE.
CascadeSets_None(ss, wes) == ss

\* sets.workout_exercise_id references workout_exercises.id ON DELETE CASCADE
CascadeSets(ss, wes) ==
    {s \in ss : s.workoutExerciseId \in {we.id : we \in wes}}

\* Mutant: the where clause names the id only.
deleteWorkoutForUser_NoUserFilter(userId, workoutId) ==
    LET results == {w \in workouts : w.id = workoutId}
        wes == CascadeWorkoutExercises(workoutExercises, workouts \ results)
    IN /\ workouts' = workouts \ results
       /\ workoutExercises' = wes
       /\ sets' = CascadeSets(sets, wes)
       /\ ret' = Call("deleteWorkoutForUser", userId, workoutId, NoData,
                      FirstOrNull(results))
       /\ UNCHANGED <<exercises, workoutsSeq, workoutExercisesSeq, setsSeq,
                      exercisesSeq, creator, assignedOrders>>

\* delete(workouts).where(userId = .. AND id = ..).returning()
deleteWorkoutForUser(userId, workoutId) ==
    LET results == {w \in workouts : w.userId = userId /\ w.id = workoutId}
        wes == CascadeWorkoutExercises(workoutExercises, workouts \ results)
    IN /\ workouts' = workouts \ results
       /\ workoutExercises' = wes
       /\ sets' = CascadeSets(sets, wes)
       /\ ret' = [Call("deleteWorkoutForUser", userId, workoutId, NoData,
                       FirstOrNull(results))
                     EXCEPT !.cascaded = [workoutExercises |-> Ids(workoutExercises \ wes),
                                          sets |-> Ids(sets \ CascadeSets(sets, wes))]]
       /\ UNCHANGED <<exercises, workoutsSeq, workoutExercisesSeq, setsSeq,
                      exercisesSeq, creator, assignedOrders>>

-----------------------------------------------------------------------------
(* data/exercises.ts *)

\* name.trim(): leading and trailing whitespace removed
RECURSIVE TrimStart(_)
TrimStart(name) ==
    IF name # <<>> /\ Head(name) = "_" THEN TrimStart(Tail(name)) ELSE name

RECURSIVE TrimEnd(_)
TrimEnd(name) ==
    IF name # <<>> /\ name[Len(name)] = "_"
    THEN TrimEnd(SubSeq(name, 1, Len(name) - 1)) ELSE name

Trim(name) == TrimEnd(TrimStart(name))

\* Mutant: the name is looked up as given, eq(exercises.name, name).
getExerciseByName_Untrimmed(es, name) == FirstOrNull({e \in es : e.name = name})

\* select().from(exercises).where(eq(exercises.name, name.trim())).limit(1)
getExerciseByName(es, name) == FirstOrNull({e \in es : e.name = Trim(name)})

\* Mutant: createExercise stores the name as given.
getOrCreateExercise_InsertUntrimmed(name) ==
    LET existingExercise == getExerciseByName(exercises, name)
        row == [id |-> exercisesSeq + 1, name |-> name]
    IN /\ IF existingExercise.kind = "row"
          THEN /\ ret' = Call("getOrCreateExercise", "", 0, [name |-> name],
                              existingExercise)
               /\ UNCHANGED <<exercises, exercisesSeq>>
          ELSE /\ exercises' = exercises \cup {row}
               /\ exercisesSeq' = exercisesSeq + 1
               /\ ret' = Call("getOrCreateExercise", "", 0, [name |-> name], Row(row))
       /\ UNCHANGED <<workouts, workoutExercises, sets, workoutsSeq,
                      workoutExercisesSeq, setsSeq, creator, assignedOrders>>

\* getExerciseByName(name), and createExercise(name) when there is none
getOrCreateExercise(name) ==
    LET existingExercise == getExerciseByName(exercises, name)
        row == [id |-> exercisesSeq + 1, name |-> Trim(name)]
    IN /\ IF existingExercise.kind = "row"
          THEN /\ ret' = Call("getOrCreateExercise", "", 0, [name |-> name],
                              existingExercise)
               /\ UNCHANGED <<exercises, exercisesSeq>>
          ELSE /\ exercises' = exercises \cup {row}
               /\ exercisesSeq' = exercisesSeq + 1
               /\ ret' = Call("getOrCreateExercise", "", 0, [name |-> name], Row(row))
       /\ UNCHANGED <<workouts, workoutExercises, sets, workoutsSeq,
                      workoutExercisesSeq, setsSeq, creator, assignedOrders>>

-----------------------------------------------------------------------------
(* data/workout-exercises.ts *)

\* one element of the returned array: {...row.workout_exercises, exercise, sets}
TreeEntry(we, es, setList) ==
    [id |-> we.id, workoutId |-> we.workoutId, exerciseId |-> we.exerciseId,
     order |-> we.order,
     exercise |-> FirstOrNull({e \in es : e.id = we.exerciseId}),
     sets |-> setList]

\* the tables the call queries, in turn: workouts for the ownership check and,
\* unless that returns early, workout_exercises joined with exercises and sets
getWorkoutExercisesWithSetsQueries(ws, userId, workoutId) ==
    IF getWorkoutByIdForUser(ws, userId, workoutId).kind # "row"
    THEN <<{"workouts"}>>
    ELSE <<{"workouts"}, {"workout_exercises", "exercises", "sets"}>>

\* Mutant: a workout without workout exercises reads as null.
getWorkoutExercisesWithSets_NullWhenEmpty(ws, wes, es, ss, userId, workoutId) ==
    IF \/ getWorkoutByIdForUser(ws, userId, workoutId).kind # "row"
       \/ {we \in wes : we.workoutId = workoutId} = {}
    THEN {ReturnsNull}
    ELSE LET mine == {we \in wes : we.workoutId = workoutId}
             SetsOf(we) == {x \in ss : x.workoutExerciseId = we.id}
             sorted == [we \in mine |-> Orderings(SetsOf(we), "setNumber")]
             choices == {c \in [mine -> UNION {sorted[we] : we \in mine}] :
                            \A we \in mine : c[we] \in sorted[we]}
         IN {Rows([i \in DOMAIN q |-> TreeEntry(q[i], es, c[q[i]])]) :
                <<q, c>> \in Orderings(mine, "order") \X choices}

\* The admissible results: null when the caller has no such workout; otherwise the
\* workout exercises of the workout in the order of the join's rows (ORDER BY order),
\* each with its sets sorted by setNumber.
getWorkoutExercisesWithSets(ws, wes, es, ss, userId, workoutId) ==
    IF getWorkoutByIdForUser(ws, userId, workoutId).kind # "row"
    THEN {ReturnsNull}
    ELSE LET mine == {we \in wes : we.workoutId = workoutId}
             SetsOf(we) == {x \in ss : x.workoutExerciseId = we.id}
             sorted == [we \in mine |-> Orderings(SetsOf(we), "setNumber")]
             choices == {c \in [mine -> UNION {sorted[we] : we \in mine}] :
                            \A we \in mine : c[we] \in sorted[we]}
         IN {Rows([i \in DOMAIN q |-> TreeEntry(q[i], es, c[q[i]])]) :
                <<q, c>> \in Orderings(mine, "order") \X choices}

\* Mutant: the next order is the number of workout exercises of the workout.
NextOrder_Count(wes, workoutId) ==
    Cardinality({x \in wes : x.workoutId = workoutId})

\* select max(order) from workout_exercises where workout_id = ..; (maxOrder ?? -1) + 1
NextOrder(wes, workoutId) ==
    LET orders == {we.order : we \in {x \in wes : x.workoutId = workoutId}}
    IN IF orders = {} THEN 0
       ELSE (CHOOSE m \in orders : \A o \in orders : o <= m) + 1

addExerciseToWorkout(userId, workoutId, exerciseId) ==
    LET workout == getWorkoutByIdForUser(workouts, userId, workoutId)
        row == [id |-> workoutExercisesSeq + 1,
                workoutId |-> workoutId,
                exerciseId |-> exerciseId,
                order |-> NextOrder(workoutExercises, workoutId)]
    IN /\ IF workout.kind # "row"
          THEN /\ ret' = Call("addExerciseToWorkout", userId, workoutId, NoData, Throws(ErrWorkout))
               /\ UNCHANGED <<workoutExercises, workoutExercisesSeq, assignedOrders>>
          ELSE /\ workoutExercisesSeq' = workoutExercisesSeq + 1
               /\ IF exerciseId \in {e.id : e \in exercises}
                  THEN /\ workoutExercises' = workoutExercises \cup {row}
                       /\ assignedOrders' =
                              [assignedOrders EXCEPT ![workoutId] = Append(@, row.order)]
                       /\ ret' = Call("addExerciseToWorkout", userId, workoutId, NoData, Row(row))
                  ELSE /\ ret' = Call("addExerciseToWorkout", userId, workoutId, NoData,
                                      Throws(ErrForeignKey))
                       /\ UNCHANGED <<workoutExercises, assignedOrders>>
       /\ UNCHANGED <<workouts, sets, exercises, workoutsSeq, setsSeq,
                      exercisesSeq, creator>>

\* from(workoutExercises).innerJoin(workouts, ..).where(workoutExercises.id = ..).limit(1)
JoinWorkoutExercise(wes, ws, workoutExerciseId) ==
    UNION {{[workoutExercise |-> we, workout |-> w] :
                w \in {x \in ws : we.workoutId = x.id}} :
             we \in {x \in wes : x.id = workoutExerciseId}}

\* Mutant: only the existence of the workout exercise is checked.
OwnsWorkoutExercise_ExistsOnly(wes, ws, userId, workoutExerciseId) ==
    JoinWorkoutExercise(wes, ws, workoutExerciseId) # {}

\* !result[0] || result[0].workout.userId !== userId
OwnsWorkoutExercise(wes, ws, userId, workoutExerciseId) ==
    LET result == JoinWorkoutExercise(wes, ws, workoutExerciseId)
    IN result # {} /\ (CHOOSE r \in result : TRUE).workout.userId = userId

\* Mutant: a stored workout exercise of another user gets an error of its own.
removeExerciseFromWorkout_Forbidden(userId, workoutExerciseId) ==
    LET results == {we \in workoutExercises : we.id = workoutExerciseId}
        wes == workoutExercises \ results
    IN /\ IF ~OwnsWorkoutExercise(workoutExercises, workouts, userId, workoutExerciseId)
          THEN /\ ret' = Call("removeExerciseFromWorkout", userId, workoutExerciseId, NoData,
                              IF results = {} THEN Throws(ErrWorkoutExercise)
                              ELSE Throws("Access denied"))
               /\ UNCHANGED <<workoutExercises, sets>>
          ELSE /\ workoutExercises' = wes
               /\ sets' = CascadeSets(sets, wes)
               /\ ret' = Call("removeExerciseFromWorkout", userId, workoutExerciseId,
                              NoData, FirstOrNull(results))
       /\ UNCHANGED <<workouts, exercises, workoutsSeq, workoutExercisesSeq,
                      setsSeq, exercisesSeq, creator, assignedOrders>>

\* Mutant: the exercise of the removed workout exercise is deleted with it.
removeExerciseFromWorkout_DropExercise(userId, workoutExerciseId) ==
    LET results == {we \in workoutExercises : we.id = workoutExerciseId}
        wes == workoutExercises \ results
    IN /\ IF ~OwnsWorkoutExercise(workoutExercises, workouts, userId, workoutExerciseId)
          THEN /\ ret' = Call("removeExerciseFromWorkout", userId, workoutExerciseId, NoData,
                              Throws(ErrWorkoutExercise))
               /\ UNCHANGED <<workoutExercises, sets, exercises>>
          ELSE /\ workoutExercises' = wes
               /\ sets' = CascadeSets(sets, wes)
               /\ exercises' = {e \in exercises :
                                  e.id \notin {we.exerciseId : we \in results}}
               /\ ret' = [Call("removeExerciseFromWorkout", userId, workoutExerciseId,
                               NoData, FirstOrNull(results))
                             EXCEPT !.cascaded.sets = Ids(sets \ CascadeSets(sets, wes))]
       /\ UNCHANGED <<workouts, workoutsSeq, workoutExercisesSeq,
                      setsSeq, exercisesSeq, creator, assignedOrders>>

removeExerciseFromWorkout(userId, workoutExerciseId) ==
    LET results == {we \in workoutExercises : we.id = workoutExerciseId}
        wes == workoutExercises \ results
    IN /\ IF ~OwnsWorkoutExercise(workoutExercises, workouts, userId, workoutExerciseId)
          THEN /\ ret' = Call("removeExerciseFromWorkout", userId, workoutExerciseId, NoData,
                              Throws(ErrWorkoutExercise))
               /\ UNCHANGED <<workoutExercises, sets>>
          ELSE /\ workoutExercises' = wes
               /\ sets' = CascadeSets(sets, wes)
               /\ ret' = [Call("removeExerciseFromWorkout", userId, workoutExerciseId,
                               NoData, FirstOrNull(results))
                             EXCEPT !.cascaded.sets = Ids(sets \ CascadeSets(sets, wes))]
       /\ UNCHANGED <<workouts, exercises, workoutsSeq, workoutExercisesSeq,
                      setsSeq, exercisesSeq, creator, assignedOrders>>

-----------------------------------------------------------------------------
(* data/sets.ts *)

\* from(sets).innerJoin(workoutExercises, ..).innerJoin(workouts, ..).where(sets.id = ..)
JoinSet(ss, wes, ws, setId) ==
    UNION {UNION {{[set |-> s, workoutExercise |-> we, workout |-> w] :
                       w \in {x \in ws : we.workoutId = x.id}} :
                    we \in {x \in wes : s.workoutExerciseId = x.id}} :
             s \in {x \in ss : x.id = setId}}

\* Mutant: only the existence of the set is checked, not the workout's userId.
OwnsSet_ExistsOnly(ss, wes, ws, userId, setId) ==
    JoinSet(ss, wes, ws, setId) # {}

\* !result[0] || result[0].workout.userId !== userId
OwnsSet(ss, wes, ws, userId, setId) ==
    LET result == JoinSet(ss, wes, ws, setId)
    IN result # {} /\ (CHOOSE r \in result : TRUE).workout.userId = userId

createSet(userId, workoutExerciseId, setNumber, weightKg, reps) ==
    LET row == [id |-> setsSeq + 1,
                workoutExerciseId |-> workoutExerciseId,
                setNumber |-> setNumber,
                weightKg |-> weightKg,
                reps |-> reps]
    IN /\ IF ~OwnsWorkoutExercise(workoutExercises, workouts, userId, workoutExerciseId)
          THEN /\ ret' = Call("createSet", userId, workoutExerciseId, NoData,
                              Throws(ErrWorkoutExercise))
               /\ UNCHANGED <<sets, setsSeq>>
          ELSE /\ sets' = sets \cup {row}
               /\ setsSeq' = setsSeq + 1
               /\ ret' = Call("createSet", userId, workoutExerciseId, NoData, Row(row))
       /\ UNCHANGED <<workouts, workoutExercises, exercises, workoutsSeq,
                      workoutExercisesSeq, exercisesSeq, creator, assignedOrders>>

updateSet(userId, setId, weightKg, reps) ==
    LET matched == {s \in sets : s.id = setId}
        results == {SetColumns(s, [weightKg |-> weightKg, reps |-> reps]) : s \in matched}
    IN /\ IF ~OwnsSet(sets, workoutExercises, workouts, userId, setId)
          THEN /\ ret' = Call("updateSet", userId, setId, NoData, Throws(ErrSet))
               /\ UNCHANGED sets
          ELSE /\ sets' = (sets \ matched) \cup results
               /\ ret' = Call("updateSet", userId, setId, NoData, FirstOrNull(results))
       /\ UNCHANGED <<workouts, workoutExercises, exercises, workoutsSeq,
                      workoutExercisesSeq, setsSeq, exercisesSeq, creator, assignedOrders>>

deleteSet(userId, setId) ==
    LET results == {s \in sets : s.id = setId}
    IN /\ IF ~OwnsSet(sets, workoutExercises, workouts, userId, setId)
          THEN /\ ret' = Call("deleteSet", userId, setId, NoData, Throws(ErrSet))
               /\ UNCHANGED sets
          ELSE /\ sets' = sets \ results
               /\ ret' = Call("deleteSet", userId, setId, NoData, FirstOrNull(results))
       /\ UNCHANGED <<workouts, workoutExercises, exercises, workoutsSeq,
                      workoutExercisesSeq, setsSeq, exercisesSeq, creator, assignedOrders>>

-----------------------------------------------------------------------------
(* Inputs *)

CreateData ==
    {[name |-> "Push", startedAt |-> 1]}

UpdateData ==
    {[completedAt |-> Null],
     [name |-> "Legs", startedAt |-> 2, completedAt |-> 2]}

FailingData == [completedAt |-> Null]

SetNumbers == {1, 2}
FailingSetData == [weightKg |-> 2000, reps |-> 5]
\* weightKg in hundredths of a kilogram: numeric(6, 2)
SetData == {[weightKg |-> 2000, reps |-> 5], [weightKg |-> 2250, reps |-> 8]}
ExerciseIds == 1..(exercisesSeq + 1)

\* the identity may issue one more value within the bounds
Room(seq, max) ==
    /\ seq < max
    /\ workoutsSeq + workoutExercisesSeq + setsSeq < MaxRows

\* Arguments a failing call never reads are not varied.
Next ==
    \/ \E u \in Users, d \in CreateData :
          /\ Room(workoutsSeq, MaxWorkouts)
          /\ createWorkoutForUser(u, d)
          /\ UNCHANGED inFlight
    \/ \E u \in Users, w \in WorkoutIds, d \in UpdateData :
          /\ getWorkoutByIdForUser(workouts, u, w).kind = "row" \/ d = FailingData
          /\ updateWorkoutForUser(u, w, d)
          /\ UNCHANGED inFlight
    \/ \E u \in Users, w \in WorkoutIds :
          deleteWorkoutForUser(u, w) /\ UNCHANGED inFlight
    \/ \E n \in RawNames :
          getOrCreateExercise(n) /\ UNCHANGED inFlight
    \/ \E u \in Users, w \in WorkoutIds, e \in ExerciseIds :
          /\ IF getWorkoutByIdForUser(workouts, u, w).kind = "row"
             THEN Room(workoutExercisesSeq, MaxWorkoutExercises)
             ELSE e = 1
          /\ addExerciseToWorkout(u, w, e)
          /\ UNCHANGED inFlight
    \/ \E u \in Users, we \in WorkoutExerciseIds :
          removeExerciseFromWorkout(u, we) /\ UNCHANGED inFlight
    \/ \E u \in Users, we \in WorkoutExerciseIds, n \in SetNumbers, d \in SetData :
          /\ IF OwnsWorkoutExercise(workoutExercises, workouts, u, we)
             THEN Room(setsSeq, MaxSets)
             ELSE n = 1 /\ d = FailingSetData
          /\ createSet(u, we, n, d.weightKg, d.reps)
          /\ UNCHANGED inFlight
    \/ \E u \in Users, s \in SetIds, d \in SetData :
          /\ OwnsSet(sets, workoutExercises, workouts, u, s) \/ d = FailingSetData
          /\ updateSet(u, s, d.weightKg, d.reps)
          /\ UNCHANGED inFlight
    \/ \E u \in Users, s \in SetIds :
          deleteSet(u, s) /\ UNCHANGED inFlight

Spec == Init /\ [][Next]_vars

\* The calls that decide the order of a workout's exercises, with room for
\* MaxOrderExercises workout exercises.
\* the identity may issue one more value within the bounds of this specification
RoomOrder(seq, max) ==
    /\ seq < max
    /\ workoutsSeq + workoutExercisesSeq < MaxOrderExercises + 1

NextOrderCalls ==
    \/ \E u \in Users, d \in CreateData :
          /\ RoomOrder(workoutsSeq, MaxWorkouts)
          /\ createWorkoutForUser(u, d)
          /\ UNCHANGED inFlight
    \/ \E n \in RawNames :
          getOrCreateExercise(n) /\ UNCHANGED inFlight
    \/ \E u \in Users, w \in WorkoutIds, e \in ExerciseIds :
          /\ IF getWorkoutByIdForUser(workouts, u, w).kind = "row"
             THEN RoomOrder(workoutExercisesSeq, MaxOrderExercises)
             ELSE e = 1
          /\ addExerciseToWorkout(u, w, e)
          /\ UNCHANGED inFlight
    \/ \E u \in Users, we \in WorkoutExerciseIds :
          removeExerciseFromWorkout(u, we) /\ UNCHANGED inFlight

SpecOrder == Init /\ [][NextOrderCalls]_vars

-----------------------------------------------------------------------------
(* docs/data-mutations.md, "Transactions": duplicateWorkout.  The statements
   of db.transaction(..) write rows that no other call sees until the commit;
   a throw inside rolls them back.  Identity values are issued outside the
   transaction and are not given back. *)

\* auth() without a signed-in user: userId is null
Unauthenticated == ""
ErrUnauthorized == "Unauthorized"
ErrWorkoutNotFound == "Workout not found"
ErrStatement == "insert failed"

\* the arrays a query without orderBy can return for a set of rows
Arrangements(S) ==
    {q \in [1..Cardinality(S) -> S] :
        \A i, j \in 1..Cardinality(S) : i < j => q[i] # q[j]}

\* auth(); tx.query.workouts.findFirst({where: id AND userId, with: {exercises}})
duplicateWorkoutFind(userId, workoutId) ==
    LET original == getWorkoutByIdForUser(workouts, userId, workoutId)
    IN /\ tx = NoTransaction
       /\ IF userId = Unauthenticated
          THEN /\ ret' = Call("duplicateWorkout", userId, workoutId, NoData,
                              Throws(ErrUnauthorized))
               /\ UNCHANGED tx
          ELSE IF original.kind # "row"
          THEN /\ ret' = Call("duplicateWorkout", userId, workoutId, NoData,
                              Throws(ErrWorkoutNotFound))
               /\ UNCHANGED tx
          ELSE /\ tx' = [pc |-> "found", userId |-> userId, workoutId |-> workoutId,
                         original |-> original.row,
                         exercises |-> {we \in workoutExercises :
                                          we.workoutId = workoutId},
                         newWorkout |-> NoRow, copies |-> {}]
               /\ UNCHANGED ret
       /\ UNCHANGED <<workouts, workoutExercises, sets, exercises, workoutsSeq,
                      workoutExercisesSeq, setsSeq, exercisesSeq, creator,
                      assignedOrders, request, pending>>

\* Mutant: the insert runs on db, outside the transaction.
duplicateWorkoutInsert_Autocommit(now) ==
    LET row == [id |-> workoutsSeq + 1, userId |-> tx.userId,
                name |-> tx.original.name \o " (Copy)",
                startedAt |-> now, completedAt |-> Null]
    IN /\ tx.pc = "found"
       /\ workoutsSeq' = workoutsSeq + 1
       /\ creator' = Append(creator, tx.userId)
       /\ assignedOrders' = Append(assignedOrders, <<>>)
       /\ workouts' = workouts \cup {row}
       /\ tx' = [tx EXCEPT !.pc = "inserted", !.newWorkout = row]
       /\ UNCHANGED <<workoutExercises, sets, exercises, workoutExercisesSeq,
                      setsSeq, exercisesSeq, ret, request, pending>>

\* tx.insert(workouts).values({name: `${original.name} (Copy)`, date: new Date(), userId})
duplicateWorkoutInsert(now) ==
    LET row == [id |-> workoutsSeq + 1, userId |-> tx.userId,
                name |-> tx.original.name \o " (Copy)",
                startedAt |-> now, completedAt |-> Null]
    IN /\ tx.pc = "found"
       /\ workoutsSeq' = workoutsSeq + 1
       /\ creator' = Append(creator, tx.userId)
       /\ assignedOrders' = Append(assignedOrders, <<>>)
       /\ tx' = [tx EXCEPT !.pc = "inserted", !.newWorkout = row]
       /\ UNCHANGED <<workouts, workoutExercises, sets, exercises,
                      workoutExercisesSeq, setsSeq, exercisesSeq, ret, request, pending>>

\* if (original.exercises.length > 0) tx.insert(..).values(original.exercises.map(..));
\* the statement completes, or throws after `done` of its rows and the
\* transaction is rolled back
duplicateWorkoutCopy(fails, done) ==
    LET n == Cardinality(tx.exercises)
    IN /\ tx.pc = "inserted"
       /\ tx.exercises # {}
       /\ done \in 0..n
       /\ IF fails
          THEN /\ workoutExercisesSeq' = workoutExercisesSeq + done
               /\ tx' = NoTransaction
               /\ ret' = Call("duplicateWorkout", tx.userId, tx.workoutId, NoData,
                              Throws(ErrStatement))
          ELSE /\ done = n
               /\ workoutExercisesSeq' = workoutExercisesSeq + n
               /\ \E q \in Arrangements(tx.exercises) :
                     tx' = [tx EXCEPT
                              !.pc = "copied",
                              !.copies = {[id |-> workoutExercisesSeq + i,
                                           workoutId |-> tx.newWorkout.id,
                                           exerciseId |-> q[i].exerciseId,
                                           order |-> q[i].order] : i \in 1..n}]
               /\ UNCHANGED ret
       /\ UNCHANGED <<workouts, workoutExercises, sets, exercises, workoutsSeq,
                      setsSeq, exercisesSeq, creator, assignedOrders, request, pending>>

\* return newWorkout: the transaction commits
duplicateWorkoutCommit ==
    /\ \/ tx.pc = "copied"
       \/ tx.pc = "inserted" /\ tx.exercises = {}
    /\ workouts' = workouts \cup {tx.newWorkout}
    /\ workoutExercises' = workoutExercises \cup tx.copies
    /\ \E q \in Orderings(tx.copies, "id") :
          assignedOrders' = [assignedOrders EXCEPT
                               ![tx.newWorkout.id] = [i \in DOMAIN q |-> q[i].order]]
    /\ ret' = Call("duplicateWorkout", tx.userId, tx.workoutId, NoData,
                   Row(tx.newWorkout))
    /\ tx' = NoTransaction
    /\ UNCHANGED <<sets, exercises, workoutsSeq, workoutExercisesSeq, setsSeq,
                   exercisesSeq, creator, request, pending>>

\* new Date() when the duplicate is inserted
Clock == {2}

\* the identities have room for n more rows
RoomDuplicate(n) ==
    workoutsSeq + workoutExercisesSeq + n <= MaxDuplicateRows

\* the store after getOrCreateExercise("s")
InitDuplicate ==
    /\ workouts = {}
    /\ workoutExercises = {}
    /\ sets = {}
    /\ exercises = {[id |-> 1, name |-> <<"s">>]}
    /\ workoutsSeq = 0
    /\ workoutExercisesSeq = 0
    /\ setsSeq = 0
    /\ exercisesSeq = 1
    /\ creator = <<>>
    /\ assignedOrders = <<>>
    /\ ret = Call("getOrCreateExercise", "", 0, [name |-> <<"s">>],
                  Row([id |-> 1, name |-> <<"s">>]))
    /\ tx = NoTransaction
    /\ request = NoRequest
    /\ pending = [p \in Processes |-> Idle]

\* duplicateWorkout, statement by statement, among the calls of other sessions
NextDuplicate ==
    \/ \E u \in Users, d \in CreateData :
          /\ workoutsSeq < MaxWorkouts - 1
          /\ RoomDuplicate(1)
          /\ createWorkoutForUser(u, d)
          /\ UNCHANGED inFlight
    \/ \E u \in Users, w \in WorkoutIds :
          /\ getWorkoutByIdForUser(workouts, u, w).kind = "row"
          /\ RoomDuplicate(1)
          /\ addExerciseToWorkout(u, w, 1)
          /\ UNCHANGED inFlight
    \/ \E u \in Users \cup {Unauthenticated}, w \in WorkoutIds :
          /\ getWorkoutByIdForUser(workouts, u, w).kind = "row"
                => RoomDuplicate(1 + Cardinality({we \in workoutExercises :
                                                    we.workoutId = w}))
          /\ duplicateWorkoutFind(u, w)
    \/ \E now \in Clock : duplicateWorkoutInsert(now)
    \/ \E fails \in BOOLEAN, done \in 0..MaxDuplicateRows :
          duplicateWorkoutCopy(fails, done)
    \/ duplicateWorkoutCommit

SpecDuplicate == InitDuplicate /\ [][NextDuplicate]_vars

-----------------------------------------------------------------------------
(* getOrCreateExercise over every name of up to MaxNameLen characters, each a
   letter or a whitespace character *)

NamesOfLen(n) == [1..n -> {"s", "_"}]
ExerciseNames == UNION {NamesOfLen(n) : n \in 0..MaxNameLen}

NextExercises ==
    \E n \in ExerciseNames :
        /\ exercisesSeq < MaxExercises \/ getExerciseByName(exercises, n).kind = "row"
        /\ getOrCreateExercise(n)
        /\ UNCHANGED inFlight

SpecExercises == Init /\ [][NextExercises]_vars

-----------------------------------------------------------------------------
(* The dashboard's query of the workouts active on a day, over stores of
   workouts with any start and completion *)

\* days 0..MaxDay; a day is the instants from its 00:00:00.000 to its 23:59:59.999
Days == 0..MaxDay
StartOfDay(day) == day * TicksPerDay + 1
EndOfDay(day) == (day + 1) * TicksPerDay
DayOf(instant) == (instant - 1) \div TicksPerDay
Instants == StartOfDay(0)..EndOfDay(MaxDay)

OnDateRow(id, userId, startedAt, completedAt) ==
    [id |-> id, userId |-> userId, name |-> "Push",
     startedAt |-> startedAt, completedAt |-> completedAt]

\* a first workout with any owner, start and completion
OnDateFirstRows ==
    {OnDateRow(1, u, s, c) : u \in Users, s \in Instants, c \in Instants \cup {Null}}

\* a second one: started on day 1 and completed on day 5, or started on day 3
\* and not completed
OnDateSecondRows ==
    {OnDateRow(2, u, EndOfDay(1), StartOfDay(5)) : u \in Users}
        \cup {OnDateRow(2, u, StartOfDay(3), Null) : u \in Users}

InitOnDate ==
    /\ workouts \in {{r} : r \in OnDateFirstRows}
                     \cup {{r, x} : <<r, x>> \in OnDateFirstRows \X OnDateSecondRows}
    /\ workoutExercises = {}
    /\ sets = {}
    /\ exercises = {}
    /\ workoutsSeq = Cardinality(workouts)
    /\ workoutExercisesSeq = 0
    /\ setsSeq = 0
    /\ exercisesSeq = 0
    /\ creator = [id \in 1..Cardinality(workouts) |->
                     (CHOOSE w \in workouts : w.id = id).userId]
    /\ assignedOrders = [id \in 1..Cardinality(workouts) |-> <<>>]
    /\ ret = Call("init", "", 0, NoData, ReturnsNull)
    /\ tx = NoTransaction
    /\ request = NoRequest
    /\ pending = [p \in Processes |-> Idle]

\* DashboardPage: the query for the selected day
ReadOnDate(userId, day) ==
    /\ \E q \in getWorkoutsForUserOnDate(workouts, userId, StartOfDay(day), EndOfDay(day)) :
          ret' = Call("getWorkoutsForUserOnDate", userId, day,
                      [startOfDay |-> StartOfDay(day), endOfDay |-> EndOfDay(day)],
                      Rows(q))
    /\ UNCHANGED <<workouts, workoutExercises, sets, exercises, workoutsSeq,
                   workoutExercisesSeq, setsSeq, exercisesSeq, creator, assignedOrders>>

NextOnDate ==
    \E u \in Users, day \in Days : ReadOnDate(u, day) /\ UNCHANGED inFlight

SpecOnDate == InitOnDate /\ [][NextOnDate]_vars

-----------------------------------------------------------------------------
(* app/dashboard/workout/new/actions.ts and app/dashboard/workout/[workoutId]/
   actions.ts: the server actions.  A server action is the sequence of its
   awaited calls; `request` holds the action called last, its session and
   input, the position in its sequence, the calls made so far and the
   response.  The calls of the data layer are the actions above. *)

\* z.string().min(1).max(255)
NameMin == 1
NameMax == 255

\* a date string that does not match /^\d{4}-\d{2}-\d{2}T\d{2}:\d{2}:\d{2}/
Malformed == -1

RECURSIVE Repeat(_, _)
Repeat(c, n) ==
    IF n = 0 THEN ""
    ELSE IF n % 2 = 1 THEN c \o Repeat(c, n - 1)
    ELSE LET half == Repeat(c, n \div 2) IN half \o half

LongName == Repeat("x", NameMax + 1)

\* z.number().int().positive()
PositiveInt(n) == n \in Int /\ n > 0

\* z.string().min(1, ..).max(255, ..)
ValidName(name) == Len(name) >= NameMin /\ Len(name) <= NameMax

\* z.string().regex(/^\d{4}-\d{2}-\d{2}T\d{2}:\d{2}:\d{2}/)
ValidDate(date) == date # Malformed

\* .optional().nullable()
ValidOptionalDate(date) == date = Null \/ ValidDate(date)

IsDigit(c) == c \in {"0", "1", "2", "3", "4", "5", "6", "7", "8", "9"}

\* Mutant: the pattern admits a sign, /^-?\d+(\.\d{1,2})?$/
ValidWeight_Signed(s) ==
    LET body == IF s # <<>> /\ s[1] = "-" THEN Tail(s) ELSE s
        dots == {i \in 1..Len(body) : body[i] = "."}
    IN /\ body # <<>>
       /\ \A i \in (1..Len(body)) \ dots : IsDigit(body[i])
       /\ \/ dots = {}
          \/ \E k \in dots : dots = {k} /\ k >= 2 /\ Len(body) - k \in 1..2

\* z.string().regex(/^\d+(\.\d{1,2})?$/): the weight as a sequence of characters
ValidWeight(s) ==
    LET dots == {i \in 1..Len(s) : s[i] = "."}
    IN /\ s # <<>>
       /\ \A i \in (1..Len(s)) \ dots : IsDigit(s[i])
       /\ \/ dots = {}
          \/ \E k \in dots : dots = {k} /\ k >= 2 /\ Len(s) - k \in 1..2

DigitValue(c) == CHOOSE d \in 0..9 : ToString(d) = c

RECURSIVE DigitsValue(_)
DigitsValue(s) ==
    IF s = <<>> THEN 0
    ELSE DigitsValue(SubSeq(s, 1, Len(s) - 1)) * 10 + DigitValue(s[Len(s)])

\* the value a numeric(6, 2) column stores for the string, in hundredths
Numeric(s) ==
    LET negative == s # <<>> /\ s[1] = "-"
        body == IF negative THEN Tail(s) ELSE s
        dots == {i \in 1..Len(body) : body[i] = "."}
        dot == IF dots = {} THEN Len(body) + 1 ELSE CHOOSE k \in dots : TRUE
        fraction == SubSeq(body, dot + 1, Len(body))
        hundredths == DigitsValue(SubSeq(fraction \o <<"0", "0">>, 1, 2))
        roundUp == IF Len(fraction) >= 3 /\ DigitValue(fraction[3]) >= 5 THEN 1 ELSE 0
        magnitude == DigitsValue(SubSeq(body, 1, dot - 1)) * 100 + hundredths + roundUp
    IN IF negative THEN 0 - magnitude ELSE magnitude

createWorkoutSchema(input) ==
    /\ ValidName(input.name)
    /\ ValidDate(input.startedAt)
    /\ ValidOptionalDate(input.completedAt)

updateWorkoutSchema(input) ==
    /\ PositiveInt(input.workoutId)
    /\ ValidName(input.name)
    /\ ValidDate(input.startedAt)
    /\ ValidOptionalDate(input.completedAt)

deleteWorkoutSchema(input) == PositiveInt(input.workoutId)

\* exerciseName as a sequence of characters
addExerciseSchema(input) ==
    /\ PositiveInt(input.workoutId)
    /\ ValidName(input.exerciseName)

removeExerciseSchema(input) ==
    /\ PositiveInt(input.workoutExerciseId)
    /\ PositiveInt(input.workoutId)

logSetSchema(input) ==
    /\ PositiveInt(input.workoutExerciseId)
    /\ PositiveInt(input.setNumber)
    /\ ValidWeight(input.weightKg)
    /\ PositiveInt(input.reps)
    /\ PositiveInt(input.workoutId)

updateSetActionSchema(input) ==
    /\ PositiveInt(input.setId)
    /\ ValidWeight(input.weightKg)
    /\ PositiveInt(input.reps)
    /\ PositiveInt(input.workoutId)

deleteSetActionSchema(input) ==
    /\ PositiveInt(input.setId)
    /\ PositiveInt(input.workoutId)

\* the awaited calls of each server action, in the order of its body
createWorkout == <<"auth", "parse", "createWorkoutForUser">>
updateWorkout == <<"auth", "parse", "getWorkoutByIdForUser", "updateWorkoutForUser">>
deleteWorkout == <<"auth", "parse", "getWorkoutByIdForUser", "deleteWorkoutForUser">>
\* Mutant: the exercise is got or created before the workout is looked up.
addExercise_ExerciseFirst ==
    <<"auth", "parse", "getOrCreateExercise", "getWorkoutByIdForUser",
      "addExerciseToWorkout">>

addExercise ==
    <<"auth", "parse", "getWorkoutByIdForUser", "getOrCreateExercise",
      "addExerciseToWorkout">>
removeExercise == <<"auth", "parse", "removeExerciseFromWorkout">>
logSet == <<"auth", "parse", "createSet">>
updateSetAction == <<"auth", "parse", "updateSet">>
deleteSetAction == <<"auth", "parse", "deleteSet">>

ServerActions ==
    {"createWorkout", "updateWorkout", "deleteWorkout", "addExercise",
     "removeExercise", "logSet", "updateSetAction", "deleteSetAction"}

Program(action) ==
    CASE action = "createWorkout" -> createWorkout
      [] action = "updateWorkout" -> updateWorkout
      [] action = "deleteWorkout" -> deleteWorkout
      [] action = "addExercise" -> addExercise
      [] action = "removeExercise" -> removeExercise
      [] action = "logSet" -> logSet
      [] action = "updateSetAction" -> updateSetAction
      [] action = "deleteSetAction" -> deleteSetAction
      [] OTHER -> <<>>

\* Schema.parse(input) does not throw
Parses(action, input) ==
    CASE action = "createWorkout" -> createWorkoutSchema(input)
      [] action = "updateWorkout" -> updateWorkoutSchema(input)
      [] action = "deleteWorkout" -> deleteWorkoutSchema(input)
      [] action = "addExercise" -> addExerciseSchema(input)
      [] action = "removeExercise" -> removeExerciseSchema(input)
      [] action = "logSet" -> logSetSchema(input)
      [] action = "updateSetAction" -> updateSetActionSchema(input)
      [] action = "deleteSetAction" -> deleteSetActionSchema(input)

ErrValidation == "ZodError"
ErrActionWorkoutNotFound == "Workout not found"
ErrFailedToUpdateWorkout == "Failed to update workout"
ErrFailedToDeleteWorkout == "Failed to delete workout"
ErrFailedToUpdateSet == "Failed to update set"

Pending == [kind |-> "pending", msg |-> ""]
Success == [kind |-> "success", msg |-> ""]
Failure(m) == [kind |-> "error", msg |-> m]

\* the action called last has returned or thrown
Settled == request.pc > Len(Program(request.action))

\* the call the action awaits next
Awaits(label) == ~Settled /\ Program(request.action)[request.pc] = label

\* the awaited call returned: on to the next one, or return {success: true, ..}
Proceed(label) ==
    [request EXCEPT !.pc = @ + 1,
                    !.calls = Append(@, label),
                    !.response = IF request.pc = Len(Program(request.action))
                                 THEN Success ELSE Pending]

\* throw new Error(m), or the awaited call threw
Throw(label, m) ==
    [request EXCEPT !.pc = Len(Program(request.action)) + 1,
                    !.calls = Append(@, label),
                    !.response = Failure(m)]

\* the awaited call of the data layer has made its step: its error propagates,
\* and a null result throws the message of the action, if it has one
AfterCall(label, out, messageOnNull) ==
    IF out.kind = "error" THEN Throw(label, out.msg)
    ELSE IF out.kind = "null" /\ messageOnNull # ""
    THEN Throw(label, messageOnNull)
    ELSE Proceed(label)

\* a client calls the server action
Submit(action, session, input) ==
    /\ Settled
    /\ request' = [action |-> action, session |-> session, input |-> input,
                   pc |-> 1, calls |-> <<>>, response |-> Pending, exerciseId |-> 0]
    /\ UNCHANGED <<workouts, workoutExercises, sets, exercises, workoutsSeq,
                   workoutExercisesSeq, setsSeq, exercisesSeq, creator,
                   assignedOrders, ret, tx, pending>>

\* Mutant: a call without a signed-in user goes on.
StepAuth_NoCheck ==
    /\ Awaits("auth")
    /\ request' = Proceed("auth")
    /\ UNCHANGED <<workouts, workoutExercises, sets, exercises, workoutsSeq,
                   workoutExercisesSeq, setsSeq, exercisesSeq, creator,
                   assignedOrders, ret, tx, pending>>

\* const { userId } = await auth(); if (!userId) throw new Error('Unauthorized')
StepAuth ==
    /\ Awaits("auth")
    /\ request' = IF request.session = Unauthenticated
                  THEN Throw("auth", ErrUnauthorized)
                  ELSE Proceed("auth")
    /\ UNCHANGED <<workouts, workoutExercises, sets, exercises, workoutsSeq,
                   workoutExercisesSeq, setsSeq, exercisesSeq, creator,
                   assignedOrders, ret, tx, pending>>

\* const validatedInput = schema.parse(input)
StepParse ==
    /\ Awaits("parse")
    /\ request' = IF Parses(request.action, request.input)
                  THEN Proceed("parse")
                  ELSE Throw("parse", ErrValidation)
    /\ UNCHANGED <<workouts, workoutExercises, sets, exercises, workoutsSeq,
                   workoutExercisesSeq, setsSeq, exercisesSeq, creator,
                   assignedOrders, ret, tx, pending>>

\* const existingWorkout = await getWorkoutByIdForUser(userId, workoutId)
\* if (!existingWorkout) throw new Error('Workout not found')
StepGetWorkoutByIdForUser ==
    /\ Awaits("getWorkoutByIdForUser")
    /\ request' = AfterCall("getWorkoutByIdForUser",
                            getWorkoutByIdForUser(workouts, request.session,
                                                  request.input.workoutId),
                            ErrActionWorkoutNotFound)
    /\ UNCHANGED <<workouts, workoutExercises, sets, exercises, workoutsSeq,
                   workoutExercisesSeq, setsSeq, exercisesSeq, creator,
                   assignedOrders, ret, tx, pending>>

\* new Date(validatedInput.startedAt), validatedInput.completedAt ? new Date(..) : null
WorkoutData(input) ==
    [name |-> input.name, startedAt |-> input.startedAt,
     completedAt |-> input.completedAt]

StepCreateWorkoutForUser ==
    /\ Awaits("createWorkoutForUser")
    /\ createWorkoutForUser(request.session, WorkoutData(request.input))
    /\ request' = AfterCall("createWorkoutForUser", ret'.out, "")
    /\ UNCHANGED <<tx, pending>>

StepUpdateWorkoutForUser ==
    /\ Awaits("updateWorkoutForUser")
    /\ updateWorkoutForUser(request.session, request.input.workoutId,
                            WorkoutData(request.input))
    /\ request' = AfterCall("updateWorkoutForUser", ret'.out, ErrFailedToUpdateWorkout)
    /\ UNCHANGED <<tx, pending>>

StepDeleteWorkoutForUser ==
    /\ Awaits("deleteWorkoutForUser")
    /\ deleteWorkoutForUser(request.session, request.input.workoutId)
    /\ request' = AfterCall("deleteWorkoutForUser", ret'.out, ErrFailedToDeleteWorkout)
    /\ UNCHANGED <<tx, pending>>

\* const exercise = await getOrCreateExercise(validatedInput.exerciseName)
StepGetOrCreateExercise ==
    /\ Awaits("getOrCreateExercise")
    /\ getOrCreateExercise(request.input.exerciseName)
    /\ request' = [AfterCall("getOrCreateExercise", ret'.out, "")
                      EXCEPT !.exerciseId = ret'.out.row.id]
    /\ UNCHANGED <<tx, pending>>

StepAddExerciseToWorkout ==
    /\ Awaits("addExerciseToWorkout")
    /\ addExerciseToWorkout(request.session, request.input.workoutId,
                            request.exerciseId)
    /\ request' = AfterCall("addExerciseToWorkout", ret'.out, "")
    /\ UNCHANGED <<tx, pending>>

StepRemoveExerciseFromWorkout ==
    /\ Awaits("removeExerciseFromWorkout")
    /\ removeExerciseFromWorkout(request.session, request.input.workoutExerciseId)
    /\ request' = AfterCall("removeExerciseFromWorkout", ret'.out, "")
    /\ UNCHANGED <<tx, pending>>

StepCreateSet ==
    /\ Awaits("createSet")
    /\ createSet(request.session, request.input.workoutExerciseId,
                 request.input.setNumber, Numeric(request.input.weightKg),
                 request.input.reps)
    /\ request' = AfterCall("createSet", ret'.out, "")
    /\ UNCHANGED <<tx, pending>>

StepUpdateSet ==
    /\ Awaits("updateSet")
    /\ updateSet(request.session, request.input.setId,
                 Numeric(request.input.weightKg), request.input.reps)
    /\ request' = AfterCall("updateSet", ret'.out, ErrFailedToUpdateSet)
    /\ UNCHANGED <<tx, pending>>

StepDeleteSet ==
    /\ Awaits("deleteSet")
    /\ deleteSet(request.session, request.input.setId)
    /\ request' = AfterCall("deleteSet", ret'.out, "")
    /\ UNCHANGED <<tx, pending>>

\* who calls: a signed-in user, or nobody.  The server actions hand the userId
\* of the session to the data layer; what that does with a second user is
\* the subject of Spec.
Sessions == {"alice", Unauthenticated}

\* the inputs of an action that its schema accepts, over the ids
WellFormedInputs(action) ==
    CASE action = "createWorkout" ->
           {[name |-> "Push", startedAt |-> 1, completedAt |-> Null]}
      [] action = "updateWorkout" ->
           {[workoutId |-> w, name |-> "Legs", startedAt |-> 2, completedAt |-> 2] :
               w \in WorkoutIds}
      [] action = "deleteWorkout" ->
           {[workoutId |-> w] : w \in WorkoutIds}
      [] action = "addExercise" ->
           {[workoutId |-> w, exerciseName |-> <<"s">>] : w \in WorkoutIds}
      [] action = "removeExercise" ->
           {[workoutExerciseId |-> we, workoutId |-> 1] : we \in WorkoutExerciseIds}
      [] action = "logSet" ->
           {[workoutExerciseId |-> we, setNumber |-> 1, weightKg |-> <<"2", "0">>,
             reps |-> 5, workoutId |-> 1] : we \in WorkoutExerciseIds}
      [] action = "updateSetAction" ->
           {[setId |-> s, weightKg |-> <<"2", "2", ".", "5">>, reps |-> 8,
             workoutId |-> 1] : s \in SetIds}
      [] action = "deleteSetAction" ->
           {[setId |-> s, workoutId |-> 1] : s \in SetIds}

\* weights as typed that are no weight: a negative one, one with three
\* fractional digits, one that is no number, and the empty string
MalformedWeights == {<<"-", "5">>, <<"1", ".", "2", "3", "4">>, <<"a">>, <<>>}

\* one input of the action, and each way of failing the schema with it
IllFormedInputs(action) ==
    LET input == CHOOSE i \in WellFormedInputs(action) : TRUE
    IN CASE action = "createWorkout" ->
              {[input EXCEPT !.name = n] : n \in {"", LongName}}
              \cup {[input EXCEPT !.startedAt = Malformed],
                    [input EXCEPT !.completedAt = Malformed]}
         [] action = "updateWorkout" ->
              {[input EXCEPT !.name = n] : n \in {"", LongName}}
              \cup {[input EXCEPT !.workoutId = 0],
                    [input EXCEPT !.startedAt = Malformed],
                    [input EXCEPT !.completedAt = Malformed]}
         [] action = "deleteWorkout" -> {[input EXCEPT !.workoutId = 0]}
         [] action = "addExercise" ->
              {[input EXCEPT !.workoutId = 0], [input EXCEPT !.exerciseName = <<>>]}
         [] action = "removeExercise" ->
              {[input EXCEPT !.workoutExerciseId = 0], [input EXCEPT !.workoutId = 0]}
         [] action = "logSet" ->
              {[input EXCEPT !.weightKg = k] : k \in MalformedWeights}
              \cup {[input EXCEPT !.workoutExerciseId = 0],
                    [input EXCEPT !.setNumber = 0],
                    [input EXCEPT !.reps = 0],
                    [input EXCEPT !.workoutId = 0]}
         [] action = "updateSetAction" ->
              {[input EXCEPT !.weightKg = k] : k \in MalformedWeights}
              \cup {[input EXCEPT !.setId = 0],
                    [input EXCEPT !.reps = 0],
                    [input EXCEPT !.workoutId = 0]}
         [] action = "deleteSetAction" ->
              {[input EXCEPT !.setId = 0], [input EXCEPT !.workoutId = 0]}

\* The inputs a session sends.  An action called without a user reads no
\* input: one input is sent then.
ActionInputs(action, session) ==
    IF session = Unauthenticated
    THEN {CHOOSE i \in WellFormedInputs(action) : TRUE}
    ELSE WellFormedInputs(action) \cup IllFormedInputs(action)

\* the identities have room for the rows the action may insert
RoomFor(action) ==
    CASE action = "createWorkout" -> Room(workoutsSeq, MaxWorkouts)
      [] action = "addExercise" -> Room(workoutExercisesSeq, MaxWorkoutExercises)
      [] action = "logSet" -> Room(setsSeq, MaxSets)
      [] OTHER -> TRUE

\* One server action at a time, call by call.
NextActions ==
    \/ \E action \in ServerActions, session \in Sessions :
          /\ RoomFor(action)
          /\ \E input \in ActionInputs(action, session) : Submit(action, session, input)
    \/ StepAuth
    \/ StepParse
    \/ StepGetWorkoutByIdForUser
    \/ StepCreateWorkoutForUser
    \/ StepUpdateWorkoutForUser
    \/ StepDeleteWorkoutForUser
    \/ StepGetOrCreateExercise
    \/ StepAddExerciseToWorkout
    \/ StepRemoveExerciseFromWorkout
    \/ StepCreateSet
    \/ StepUpdateSet
    \/ StepDeleteSet

SpecActions == Init /\ [][NextActions]_vars

-----------------------------------------------------------------------------
(* The functions of data/workout-exercises.ts and data/sets.ts that check the
   ownership in one statement and write in another, statement by statement:
   between the two, calls of other processes run.  The functions that are one
   statement (createWorkoutForUser, deleteWorkoutForUser) run as above. *)

InFlight(p) == pending[p].pc # "idle"

Begins(p, call) == pending' = [pending EXCEPT ![p] = call]
Returns(p) == pending' = [pending EXCEPT ![p] = Idle]

\* const workout = await getWorkoutByIdForUser(userId, workoutId); if (!workout) throw
addExerciseToWorkoutCheck(p, userId, workoutId, exerciseId) ==
    /\ ~InFlight(p)
    /\ IF getWorkoutByIdForUser(workouts, userId, workoutId).kind # "row"
       THEN /\ ret' = Call("addExerciseToWorkout", userId, workoutId, NoData,
                           Throws(ErrWorkout))
            /\ UNCHANGED pending
       ELSE /\ Begins(p, [pc |-> "max", op |-> "addExerciseToWorkout",
                          userId |-> userId, id |-> workoutId,
                          exerciseId |-> exerciseId])
            /\ UNCHANGED ret
    /\ UNCHANGED <<workouts, workoutExercises, sets, exercises, workoutsSeq,
                   workoutExercisesSeq, setsSeq, exercisesSeq, creator,
                   assignedOrders, tx, request>>

\* select max(order) ..; const nextOrder = (maxOrderResult[0]?.maxOrder ?? -1) + 1
addExerciseToWorkoutMax(p) ==
    /\ pending[p].pc = "max"
    /\ pending' = [pending EXCEPT
                     ![p] = [pc |-> "insert", op |-> "addExerciseToWorkout",
                             userId |-> pending[p].userId, id |-> pending[p].id,
                             exerciseId |-> pending[p].exerciseId,
                             nextOrder |-> NextOrder(workoutExercises, pending[p].id)]]
    /\ UNCHANGED <<workouts, workoutExercises, sets, exercises, workoutsSeq,
                   workoutExercisesSeq, setsSeq, exercisesSeq, creator,
                   assignedOrders, ret, tx, request>>

\* insert(workoutExercises).values({workoutId, exerciseId, order: nextOrder}).returning()
addExerciseToWorkoutInsert(p) ==
    LET call == pending[p]
        row == [id |-> workoutExercisesSeq + 1,
                workoutId |-> call.id,
                exerciseId |-> call.exerciseId,
                order |-> call.nextOrder]
    IN /\ call.pc = "insert"
       /\ call.op = "addExerciseToWorkout"
       /\ workoutExercisesSeq' = workoutExercisesSeq + 1
       /\ IF call.id \in Ids(workouts) /\ call.exerciseId \in Ids(exercises)
          THEN /\ workoutExercises' = workoutExercises \cup {row}
               /\ assignedOrders' =
                      [assignedOrders EXCEPT ![call.id] = Append(@, row.order)]
               /\ ret' = Call("addExerciseToWorkout", call.userId, call.id, NoData,
                              Row(row))
          ELSE /\ ret' = Call("addExerciseToWorkout", call.userId, call.id, NoData,
                              Throws(ErrForeignKey))
               /\ UNCHANGED <<workoutExercises, assignedOrders>>
       /\ Returns(p)
       /\ UNCHANGED <<workouts, sets, exercises, workoutsSeq, setsSeq,
                      exercisesSeq, creator, tx, request>>

\* the select of removeExerciseFromWorkout and its throw
removeExerciseFromWorkoutCheck(p, userId, workoutExerciseId) ==
    /\ ~InFlight(p)
    /\ IF ~OwnsWorkoutExercise(workoutExercises, workouts, userId, workoutExerciseId)
       THEN /\ ret' = Call("removeExerciseFromWorkout", userId, workoutExerciseId,
                           NoData, Throws(ErrWorkoutExercise))
            /\ UNCHANGED pending
       ELSE /\ Begins(p, [pc |-> "delete", op |-> "removeExerciseFromWorkout",
                          userId |-> userId, id |-> workoutExerciseId])
            /\ UNCHANGED ret
    /\ UNCHANGED <<workouts, workoutExercises, sets, exercises, workoutsSeq,
                   workoutExercisesSeq, setsSeq, exercisesSeq, creator,
                   assignedOrders, tx, request>>

\* delete(workoutExercises).where(id = workoutExerciseId).returning(); results[0] || null
removeExerciseFromWorkoutDelete(p) ==
    LET call == pending[p]
        results == {we \in workoutExercises : we.id = call.id}
        wes == workoutExercises \ results
    IN /\ call.pc = "delete"
       /\ call.op = "removeExerciseFromWorkout"
       /\ workoutExercises' = wes
       /\ sets' = CascadeSets(sets, wes)
       /\ ret' = [Call("removeExerciseFromWorkout", call.userId, call.id, NoData,
                       FirstOrNull(results))
                     EXCEPT !.cascaded.sets = Ids(sets \ CascadeSets(sets, wes))]
       /\ Returns(p)
       /\ UNCHANGED <<workouts, exercises, workoutsSeq, workoutExercisesSeq,
                      setsSeq, exercisesSeq, creator, assignedOrders, tx, request>>

\* await verifyWorkoutExerciseOwnership(userId, workoutExerciseId)
createSetCheck(p, userId, workoutExerciseId, setNumber, weightKg, reps) ==
    /\ ~InFlight(p)
    /\ IF ~OwnsWorkoutExercise(workoutExercises, workouts, userId, workoutExerciseId)
       THEN /\ ret' = Call("createSet", userId, workoutExerciseId, NoData,
                           Throws(ErrWorkoutExercise))
            /\ UNCHANGED pending
       ELSE /\ Begins(p, [pc |-> "insert", op |-> "createSet", userId |-> userId,
                          id |-> workoutExerciseId, setNumber |-> setNumber,
                          weightKg |-> weightKg, reps |-> reps])
            /\ UNCHANGED ret
    /\ UNCHANGED <<workouts, workoutExercises, sets, exercises, workoutsSeq,
                   workoutExercisesSeq, setsSeq, exercisesSeq, creator,
                   assignedOrders, tx, request>>

\* Mutant: sets.workout_exercise_id has no foreign key.
createSetInsert_NoForeignKey(p) ==
    LET call == pending[p]
        row == [id |-> setsSeq + 1,
                workoutExerciseId |-> call.id,
                setNumber |-> call.setNumber,
                weightKg |-> call.weightKg,
                reps |-> call.reps]
    IN /\ call.pc = "insert"
       /\ call.op = "createSet"
       /\ setsSeq' = setsSeq + 1
       /\ sets' = sets \cup {row}
       /\ ret' = Call("createSet", call.userId, call.id, NoData, Row(row))
       /\ Returns(p)
       /\ UNCHANGED <<workouts, workoutExercises, exercises, workoutsSeq,
                      workoutExercisesSeq, exercisesSeq, creator, assignedOrders,
                      tx, request>>

\* Mutant: sets has a unique constraint on (workout_exercise_id, set_number).
createSetInsert_UniqueSetNumber(p) ==
    LET call == pending[p]
        row == [id |-> setsSeq + 1,
                workoutExerciseId |-> call.id,
                setNumber |-> call.setNumber,
                weightKg |-> call.weightKg,
                reps |-> call.reps]
    IN /\ call.pc = "insert"
       /\ call.op = "createSet"
       /\ setsSeq' = setsSeq + 1
       /\ IF call.id \notin Ids(workoutExercises)
          THEN /\ ret' = Call("createSet", call.userId, call.id, NoData,
                              Throws(ErrForeignKey))
               /\ UNCHANGED sets
          ELSE IF \E s \in sets : /\ s.workoutExerciseId = call.id
                                   /\ s.setNumber = call.setNumber
          THEN /\ ret' = Call("createSet", call.userId, call.id, NoData,
                              Throws(ErrUnique))
               /\ UNCHANGED sets
          ELSE /\ sets' = sets \cup {row}
               /\ ret' = Call("createSet", call.userId, call.id, NoData, Row(row))
       /\ Returns(p)
       /\ UNCHANGED <<workouts, workoutExercises, exercises, workoutsSeq,
                      workoutExercisesSeq, exercisesSeq, creator, assignedOrders,
                      tx, request>>

\* insert(sets).values({workoutExerciseId, setNumber, weightKg, reps}).returning()
createSetInsert(p) ==
    LET call == pending[p]
        row == [id |-> setsSeq + 1,
                workoutExerciseId |-> call.id,
                setNumber |-> call.setNumber,
                weightKg |-> call.weightKg,
                reps |-> call.reps]
    IN /\ call.pc = "insert"
       /\ call.op = "createSet"
       /\ setsSeq' = setsSeq + 1
       /\ IF call.id \in Ids(workoutExercises)
          THEN /\ sets' = sets \cup {row}
               /\ ret' = Call("createSet", call.userId, call.id, NoData, Row(row))
          ELSE /\ ret' = Call("createSet", call.userId, call.id, NoData,
                              Throws(ErrForeignKey))
               /\ UNCHANGED sets
       /\ Returns(p)
       /\ UNCHANGED <<workouts, workoutExercises, exercises, workoutsSeq,
                      workoutExercisesSeq, exercisesSeq, creator, assignedOrders,
                      tx, request>>

\* await verifySetOwnership(userId, setId): throws, or returns result[0]
verifySetOwnership(p, op, userId, setId, data) ==
    LET result == JoinSet(sets, workoutExercises, workouts, setId)
    IN /\ ~InFlight(p)
       /\ IF ~OwnsSet(sets, workoutExercises, workouts, userId, setId)
          THEN /\ ret' = Call(op, userId, setId, NoData, Throws(ErrSet))
               /\ UNCHANGED pending
          ELSE /\ Begins(p, [pc |-> "write", op |-> op, userId |-> userId,
                             id |-> setId, data |-> data,
                             verified |-> CHOOSE r \in result : TRUE])
               /\ UNCHANGED ret
       /\ UNCHANGED <<workouts, workoutExercises, sets, exercises, workoutsSeq,
                      workoutExercisesSeq, setsSeq, exercisesSeq, creator,
                      assignedOrders, tx, request>>

updateSetCheck(p, userId, setId, weightKg, reps) ==
    verifySetOwnership(p, "updateSet", userId, setId,
                       [weightKg |-> weightKg, reps |-> reps])

\* Mutant: the where clause names the workout exercise of the set.
updateSetWrite_WholeExercise(p) ==
    LET call == pending[p]
        matched == {s \in sets : \E t \in sets :
                       t.id = call.id /\ s.workoutExerciseId = t.workoutExerciseId}
        results == {SetColumns(s, call.data) : s \in matched}
    IN /\ call.pc = "write"
       /\ call.op = "updateSet"
       /\ sets' = (sets \ matched) \cup results
       /\ ret' = Call("updateSet", call.userId, call.id, NoData,
                      FirstOrNull({r \in results : r.id = call.id}))
       /\ Returns(p)
       /\ UNCHANGED <<workouts, workoutExercises, exercises, workoutsSeq,
                      workoutExercisesSeq, setsSeq, exercisesSeq, creator,
                      assignedOrders, tx, request>>

\* update(sets).set({weightKg, reps}).where(id = setId).returning(); results[0] || null
updateSetWrite(p) ==
    LET call == pending[p]
        matched == {s \in sets : s.id = call.id}
        results == {SetColumns(s, call.data) : s \in matched}
    IN /\ call.pc = "write"
       /\ call.op = "updateSet"
       /\ sets' = (sets \ matched) \cup results
       /\ ret' = Call("updateSet", call.userId, call.id, NoData, FirstOrNull(results))
       /\ Returns(p)
       /\ UNCHANGED <<workouts, workoutExercises, exercises, workoutsSeq,
                      workoutExercisesSeq, setsSeq, exercisesSeq, creator,
                      assignedOrders, tx, request>>

deleteSetCheck(p, userId, setId) ==
    verifySetOwnership(p, "deleteSet", userId, setId, NoData)

\* delete(sets).where(id = setId).returning(); results[0] || null
deleteSetWrite(p) ==
    LET call == pending[p]
        results == {s \in sets : s.id = call.id}
    IN /\ call.pc = "write"
       /\ call.op = "deleteSet"
       /\ sets' = sets \ results
       /\ ret' = Call("deleteSet", call.userId, call.id, NoData, FirstOrNull(results))
       /\ Returns(p)
       /\ UNCHANGED <<workouts, workoutExercises, exercises, workoutsSeq,
                      workoutExercisesSeq, setsSeq, exercisesSeq, creator,
                      assignedOrders, tx, request>>

\* the calls in flight that insert into the table of the identity
Inserting(op) == Cardinality({p \in Processes : InFlight(p) /\ pending[p].op = op})

\* the identity may issue one more value within the bounds, the inserts in
\* flight counted
RoomRace(seq, max, op) ==
    /\ seq + Inserting(op) < max
    /\ workoutsSeq + workoutExercisesSeq + setsSeq
         + Inserting("addExerciseToWorkout") + Inserting("createSet") < MaxRows

\* the store after getOrCreateExercise("s")
InitRace ==
    /\ workouts = {}
    /\ workoutExercises = {}
    /\ sets = {}
    /\ exercises = {[id |-> 1, name |-> <<"s">>]}
    /\ workoutsSeq = 0
    /\ workoutExercisesSeq = 0
    /\ setsSeq = 0
    /\ exercisesSeq = 1
    /\ creator = <<>>
    /\ assignedOrders = <<>>
    /\ ret = Call("getOrCreateExercise", "", 0, [name |-> <<"s">>],
                  Row([id |-> 1, name |-> <<"s">>]))
    /\ tx = NoTransaction
    /\ request = NoRequest
    /\ pending = [p \in Processes |-> Idle]

\* Calls of any user by any process, interleaved statement by statement.
NextRace ==
    \/ \E u \in Users, d \in CreateData :
          /\ RoomRace(workoutsSeq, MaxWorkouts, "createWorkoutForUser")
          /\ createWorkoutForUser(u, d)
          /\ UNCHANGED inFlight
    \/ \E u \in Users, w \in WorkoutIds :
          deleteWorkoutForUser(u, w) /\ UNCHANGED inFlight
    \/ \E p \in Processes, u \in Users, w \in WorkoutIds :
          /\ getWorkoutByIdForUser(workouts, u, w).kind = "row"
                => RoomRace(workoutExercisesSeq, MaxWorkoutExercises,
                            "addExerciseToWorkout")
          /\ addExerciseToWorkoutCheck(p, u, w, 1)
    \/ \E p \in Processes : addExerciseToWorkoutMax(p)
    \/ \E p \in Processes : addExerciseToWorkoutInsert(p)
    \/ \E p \in Processes, u \in Users, we \in WorkoutExerciseIds :
          removeExerciseFromWorkoutCheck(p, u, we)
    \/ \E p \in Processes : removeExerciseFromWorkoutDelete(p)
    \/ \E p \in Processes, u \in Users, we \in WorkoutExerciseIds :
          /\ OwnsWorkoutExercise(workoutExercises, workouts, u, we)
                => RoomRace(setsSeq, MaxSets, "createSet")
          /\ createSetCheck(p, u, we, 1, 2000, 5)
    \/ \E p \in Processes : createSetInsert(p)
    \/ \E p \in Processes, u \in Users, s \in SetIds :
          updateSetCheck(p, u, s, 2250, 8)
    \/ \E p \in Processes : updateSetWrite(p)
    \/ \E p \in Processes, u \in Users, s \in SetIds :
          deleteSetCheck(p, u, s)
    \/ \E p \in Processes : deleteSetWrite(p)

SpecRace == InitRace /\ [][NextRace]_vars

-----------------------------------------------------------------------------
(* getOrCreateExercise of data/exercises.ts, statement by statement: the
   lookup of getExerciseByName, then the insert of createExercise. *)

\* const existingExercise = await getExerciseByName(name); if (existingExercise) return ..
getOrCreateExerciseLookup(p, name) ==
    LET existingExercise == getExerciseByName(exercises, name)
    IN /\ ~InFlight(p)
       /\ IF existingExercise.kind = "row"
          THEN /\ ret' = Call("getOrCreateExercise", "", 0, [name |-> name],
                              existingExercise)
               /\ UNCHANGED pending
          ELSE /\ Begins(p, [pc |-> "create", op |-> "getOrCreateExercise",
                             name |-> name])
               /\ UNCHANGED ret
       /\ UNCHANGED <<workouts, workoutExercises, sets, exercises, workoutsSeq,
                      workoutExercisesSeq, setsSeq, exercisesSeq, creator,
                      assignedOrders, tx, request>>

\* Mutant: exercises.name has no unique constraint.
createExerciseInsert_NoUnique(p) ==
    LET call == pending[p]
        row == [id |-> exercisesSeq + 1, name |-> Trim(call.name)]
    IN /\ call.pc = "create"
       /\ exercisesSeq' = exercisesSeq + 1
       /\ exercises' = exercises \cup {row}
       /\ ret' = Call("getOrCreateExercise", "", 0, [name |-> call.name], Row(row))
       /\ Returns(p)
       /\ UNCHANGED <<workouts, workoutExercises, sets, workoutsSeq,
                      workoutExercisesSeq, setsSeq, creator, assignedOrders,
                      tx, request>>

\* return await createExercise(name): insert(exercises).values({name: name.trim()}),
\* which the unique constraint on exercises.name rejects for a stored name
createExerciseInsert(p) ==
    LET call == pending[p]
        row == [id |-> exercisesSeq + 1, name |-> Trim(call.name)]
    IN /\ call.pc = "create"
       /\ exercisesSeq' = exercisesSeq + 1
       /\ IF \E e \in exercises : e.name = row.name
          THEN /\ ret' = Call("getOrCreateExercise", "", 0, [name |-> call.name],
                              Throws(ErrUnique))
               /\ UNCHANGED exercises
          ELSE /\ exercises' = exercises \cup {row}
               /\ ret' = Call("getOrCreateExercise", "", 0, [name |-> call.name],
                              Row(row))
       /\ Returns(p)
       /\ UNCHANGED <<workouts, workoutExercises, sets, workoutsSeq,
                      workoutExercisesSeq, setsSeq, creator, assignedOrders,
                      tx, request>>

\* the identity of exercises.id may issue one more value, the inserts in flight counted
RoomExercises ==
    exercisesSeq + Inserting("getOrCreateExercise") < MaxExercises

\* getOrCreateExercise calls of two processes, interleaved
NextExerciseRace ==
    \/ \E p \in Processes, n \in ExerciseNames :
          /\ getExerciseByName(exercises, n).kind # "row" => RoomExercises
          /\ getOrCreateExerciseLookup(p, n)
    \/ \E p \in Processes : createExerciseInsert(p)

SpecExerciseRace == Init /\ [][NextExerciseRace]_vars

-----------------------------------------------------------------------------
(* app/dashboard/workout/[workoutId]/_components/exercise-item.tsx: a session
   shows a workout exercise of its user with its sets, and sends logSet with
   the number of sets shown plus one.  The page is rendered again after each
   of the session's actions (revalidatePath). *)

\* sets logged in the specifications of the set numbers
MaxLoggedSets == 3

\* const nextSetNumber = workoutExercise.sets.length + 1
nextSetNumber(workoutExerciseId) ==
    Cardinality({s \in sets : s.workoutExerciseId = workoutExerciseId}) + 1

\* ExerciseItem({workoutExercise, workoutId}), rendered from
\* getWorkoutExercisesWithSets(userId, workoutId) of the session's user
ExerciseItem(p, userId, workoutExerciseId) ==
    /\ ~InFlight(p)
    /\ OwnsWorkoutExercise(workoutExercises, workouts, userId, workoutExerciseId)
    /\ Begins(p, [pc |-> "rendered", op |-> "ExerciseItem", userId |-> userId,
                  id |-> workoutExerciseId,
                  nextSetNumber |-> nextSetNumber(workoutExerciseId)])
    /\ UNCHANGED <<workouts, workoutExercises, sets, exercises, workoutsSeq,
                   workoutExercisesSeq, setsSeq, exercisesSeq, creator,
                   assignedOrders, ret, tx, request>>

\* handleLogSet: logSet({workoutExerciseId, setNumber: nextSetNumber, weightKg, reps,
\* workoutId}) up to createSet's await of verifyWorkoutExerciseOwnership
handleLogSet(p, weightKg, reps) ==
    LET shown == pending[p]
        input == [workoutExerciseId |-> shown.id, setNumber |-> shown.nextSetNumber,
                  weightKg |-> weightKg, reps |-> reps, workoutId |-> 1]
    IN /\ shown.pc = "rendered"
       /\ IF ~logSetSchema(input)
          THEN /\ Returns(p)
               /\ UNCHANGED ret
          ELSE IF ~OwnsWorkoutExercise(workoutExercises, workouts, shown.userId,
                                       shown.id)
          THEN /\ ret' = Call("createSet", shown.userId, shown.id, NoData,
                              Throws(ErrWorkoutExercise))
               /\ Returns(p)
          ELSE /\ Begins(p, [pc |-> "insert", op |-> "createSet",
                             userId |-> shown.userId, id |-> shown.id,
                             setNumber |-> input.setNumber,
                             weightKg |-> Numeric(weightKg), reps |-> reps])
               /\ UNCHANGED ret
       /\ UNCHANGED <<workouts, workoutExercises, sets, exercises, workoutsSeq,
                      workoutExercisesSeq, setsSeq, exercisesSeq, creator,
                      assignedOrders, tx, request>>

\* the store after alice's createWorkout and two addExercise("s") actions
InitSets ==
    /\ workouts = {[id |-> 1, userId |-> "alice", name |-> "Push", startedAt |-> 1,
                    completedAt |-> Null]}
    /\ workoutExercises = {[id |-> 1, workoutId |-> 1, exerciseId |-> 1, order |-> 0],
                           [id |-> 2, workoutId |-> 1, exerciseId |-> 1, order |-> 1]}
    /\ sets = {}
    /\ exercises = {[id |-> 1, name |-> <<"s">>]}
    /\ workoutsSeq = 1
    /\ workoutExercisesSeq = 2
    /\ setsSeq = 0
    /\ exercisesSeq = 1
    /\ creator = <<"alice">>
    /\ assignedOrders = <<(<<0, 1>>)>>
    /\ ret = Call("addExerciseToWorkout", "alice", 1, NoData,
                  Row([id |-> 2, workoutId |-> 1, exerciseId |-> 1, order |-> 1]))
    /\ tx = NoTransaction
    /\ request = NoRequest
    /\ pending = [p \in Processes |-> Idle]

\* weights and reps as typed into the form
FormInputs == {[weightKg |-> <<"2", "0">>, reps |-> 5],
               [weightKg |-> <<"2", "0">>, reps |-> 0]}

\* the sessions log and delete sets of the workout exercises they show
NextSetsOf(sessions) ==
    \/ \E p \in sessions, we \in WorkoutExerciseIds :
          /\ setsSeq + Inserting("ExerciseItem") + Inserting("createSet") < MaxLoggedSets
          /\ ExerciseItem(p, "alice", we)
    \/ \E p \in sessions, f \in FormInputs : handleLogSet(p, f.weightKg, f.reps)
    \/ \E p \in sessions : createSetInsert(p)
    \/ \E p \in sessions, s \in SetIds : deleteSetCheck(p, "alice", s)
    \/ \E p \in sessions : deleteSetWrite(p)

\* one session
NextSets == NextSetsOf({"p1"})

SpecSets == InitSets /\ [][NextSets]_vars

\* two sessions of the owner
NextSetsRace == NextSetsOf(Processes)

SpecSetsRace == InitSets /\ [][NextSetsRace]_vars

-----------------------------------------------------------------------------
(* getWorkoutExercisesWithSets of data/workout-exercises.ts as it is computed:
   the rows of the left joins in an order the query may return them in, the
   loop that groups them in a Map, and the sort of each group's sets.  It is
   read over stores of two users' workouts that hold up to MaxTreeExercises
   workout exercises and MaxTreeSets sets. *)

MaxTreeExercises == 3
MaxTreeSets == 2

\* from(workoutExercises).leftJoin(exercises, ..).leftJoin(sets, ..).where(workoutId = ..)
LeftJoinRows(wes, es, ss, workoutId) ==
    UNION {LET joinedExercises == {e \in es : e.id = we.exerciseId}
               joinedSets == {x \in ss : x.workoutExerciseId = we.id}
           IN {[workout_exercises |-> we, exercises |-> e, sets |-> x] :
                  e \in (IF joinedExercises = {} THEN {NoRow} ELSE joinedExercises),
                  x \in (IF joinedSets = {} THEN {NoRow} ELSE joinedSets)} :
             we \in {x \in wes : x.workoutId = workoutId}}

\* .orderBy(workoutExercises.order): the arrays the query may return
RECURSIVE OrderedByOrder(_)
OrderedByOrder(rows) ==
    IF rows = {} THEN {<<>>}
    ELSE LET first == {r \in rows : \A o \in rows :
                          r.workout_exercises.order <= o.workout_exercises.order}
         IN UNION {{<<r>> \o rest : rest \in OrderedByOrder(rows \ {r})} : r \in first}

\* Mutant: a row is pushed only when its workout exercise is new in the Map.
RECURSIVE GroupRows_FirstRowOnly(_, _)
GroupRows_FirstRowOnly(results, exerciseMap) ==
    IF results = <<>> THEN exerciseMap
    ELSE LET row == Head(results)
             id == row.workout_exercises.id
             has == \E i \in DOMAIN exerciseMap : exerciseMap[i].id = id
             entry == [id |-> id,
                       workoutId |-> row.workout_exercises.workoutId,
                       exerciseId |-> row.workout_exercises.exerciseId,
                       order |-> row.workout_exercises.order,
                       exercise |-> IF row.exercises = NoRow THEN ReturnsNull
                                    ELSE Row(row.exercises),
                       sets |-> IF row.sets = NoRow THEN <<>> ELSE <<row.sets>>]
         IN GroupRows_FirstRowOnly(Tail(results),
                                   IF has THEN exerciseMap
                                   ELSE Append(exerciseMap, entry))

\* for (const row of results) { if (!exerciseMap.has(id)) exerciseMap.set(id, {..., sets: []});
\*                              if (row.sets) exerciseMap.get(id).sets.push(row.sets) }
\* the Map as the sequence of its values in insertion order
RECURSIVE GroupRows(_, _)
GroupRows(results, exerciseMap) ==
    IF results = <<>> THEN exerciseMap
    ELSE LET row == Head(results)
             id == row.workout_exercises.id
             has == \E i \in DOMAIN exerciseMap : exerciseMap[i].id = id
             entry == [id |-> id,
                       workoutId |-> row.workout_exercises.workoutId,
                       exerciseId |-> row.workout_exercises.exerciseId,
                       order |-> row.workout_exercises.order,
                       exercise |-> IF row.exercises = NoRow THEN ReturnsNull
                                    ELSE Row(row.exercises),
                       sets |-> <<>>]
             withEntry == IF has THEN exerciseMap ELSE Append(exerciseMap, entry)
             pushed == [i \in DOMAIN withEntry |->
                          IF withEntry[i].id = id /\ row.sets # NoRow
                          THEN [withEntry[i] EXCEPT !.sets = Append(@, row.sets)]
                          ELSE withEntry[i]]
         IN GroupRows(Tail(results), pushed)

\* exercise.sets.sort((a, b) => a.setNumber - b.setNumber): a stable sort
RECURSIVE SortBySetNumber(_)
SortBySetNumber(list) ==
    IF list = <<>> THEN <<>>
    ELSE LET sorted == SortBySetNumber(SubSeq(list, 1, Len(list) - 1))
             last == list[Len(list)]
             k == Cardinality({i \in DOMAIN sorted :
                                 sorted[i].setNumber <= last.setNumber})
         IN SubSeq(sorted, 1, k) \o <<last>> \o SubSeq(sorted, k + 1, Len(sorted))

\* what a call can return: null, or Array.from(exerciseMap.values())
getWorkoutExercisesWithSetsResults(ws, wes, es, ss, userId, workoutId) ==
    IF getWorkoutByIdForUser(ws, userId, workoutId).kind # "row"
    THEN {ReturnsNull}
    ELSE {LET exerciseMap == GroupRows(results, <<>>)
          IN Rows([i \in DOMAIN exerciseMap |->
                     [exerciseMap[i] EXCEPT !.sets = SortBySetNumber(@)]]) :
             results \in OrderedByOrder(LeftJoinRows(wes, es, ss, workoutId))}

\* the stores: alice's workout 1 with workout exercises 1..k of exercise 1,
\* bob's workout 2 with one or none, and sets 1..m of any of them, numbered
\* along the workout exercises
TreeWorkouts ==
    {[id |-> 1, userId |-> "alice", name |-> "Push", startedAt |-> 1,
      completedAt |-> Null],
     [id |-> 2, userId |-> "bob", name |-> "Push", startedAt |-> 1,
      completedAt |-> Null]}

TreeWorkoutExercises ==
    UNION {{{[id |-> i, workoutId |-> 1, exerciseId |-> 1, order |-> f[i]] : i \in 1..k}
              \cup {[id |-> k + 1, workoutId |-> 2, exerciseId |-> 1, order |-> 0] :
                      i \in 1..b} : f \in [1..k -> {0, 1}]} :
             <<k, b>> \in {x \in (0..MaxTreeExercises) \X {0, 1} :
                             x[1] + x[2] <= MaxTreeExercises}}

TreeSets(wes) ==
    UNION {{{[id |-> i, workoutExerciseId |-> f[i][1], setNumber |-> f[i][2],
              weightKg |-> 2000, reps |-> 5] : i \in 1..m} :
               f \in {g \in [1..m -> Ids(wes) \X {1, 2}] :
                         \A i, j \in 1..m : i < j => g[i][1] <= g[j][1]}} :
             m \in 0..MaxTreeSets}

InitTree ==
    /\ workouts = TreeWorkouts
    /\ workoutExercises \in TreeWorkoutExercises
    /\ sets \in TreeSets(workoutExercises)
    /\ exercises = {[id |-> 1, name |-> <<"s">>]}
    /\ workoutsSeq = 2
    /\ workoutExercisesSeq = Cardinality(workoutExercises)
    /\ setsSeq = Cardinality(sets)
    /\ exercisesSeq = 1
    /\ creator = <<"alice", "bob">>
    /\ assignedOrders =
          [w \in 1..2 |->
             LET q == CHOOSE q \in Orderings({we \in workoutExercises :
                                                we.workoutId = w}, "id") : TRUE
             IN [i \in DOMAIN q |-> q[i].order]]
    /\ ret = Call("getOrCreateExercise", "", 0, [name |-> <<"s">>],
                  Row([id |-> 1, name |-> <<"s">>]))
    /\ tx = NoTransaction
    /\ request = NoRequest
    /\ pending = [p \in Processes |-> Idle]

\* a page of the user renders the workout; each store is read once
ReadTree(userId, workoutId) ==
    /\ ret.op # "getWorkoutExercisesWithSets"
    /\ \E out \in getWorkoutExercisesWithSetsResults(workouts, workoutExercises,
                                                     exercises, sets, userId, workoutId) :
          ret' = Call("getWorkoutExercisesWithSets", userId, workoutId, NoData, out)
    /\ UNCHANGED <<workouts, workoutExercises, sets, exercises, workoutsSeq,
                   workoutExercisesSeq, setsSeq, exercisesSeq, creator,
                   assignedOrders, tx, request, pending>>

NextTree == \E u \in Users, w \in 1..2 : ReadTree(u, w)

SpecTree == InitTree /\ [][NextTree]_vars

-----------------------------------------------------------------------------
(* The server actions removeExercise and deleteSetAction of
   app/dashboard/workout/[workoutId]/actions.ts called by two clients at a
   time.  auth() and the parse of the input touch no table and run with the
   first statement of the data layer; the delete is a statement of its own.
   ret holds what the client receives (out) and the rows the call's delete
   statement returned (deleted). *)

Responds(action, userId, id, response, deleted) ==
    [op |-> action, userId |-> userId, id |-> id, data |-> NoData,
     out |-> response,
     cascaded |-> [workoutExercises |-> {}, sets |-> {}],
     deleted |-> deleted]

\* await <data call>; return { success: true }: the value of the call is dropped
Returned(out, messageOnNull) ==
    IF out.kind = "error" THEN Failure(out.msg)
    ELSE IF out.kind = "null" /\ messageOnNull # "" THEN Failure(messageOnNull)
    ELSE Success

\* deleteSetAction up to verifySetOwnership of deleteSet
deleteSetActionCheck(p, session, input) ==
    /\ ~InFlight(p)
    /\ IF session = Unauthenticated
       THEN /\ ret' = Responds("deleteSetAction", session, input.setId,
                               Failure(ErrUnauthorized), {})
            /\ UNCHANGED pending
       ELSE IF ~deleteSetActionSchema(input)
       THEN /\ ret' = Responds("deleteSetAction", session, input.setId,
                               Failure(ErrValidation), {})
            /\ UNCHANGED pending
       ELSE IF ~OwnsSet(sets, workoutExercises, workouts, session, input.setId)
       THEN /\ ret' = Responds("deleteSetAction", session, input.setId,
                               Returned(Throws(ErrSet), ""), {})
            /\ UNCHANGED pending
       ELSE /\ Begins(p, [pc |-> "write", op |-> "deleteSetAction",
                          userId |-> session, id |-> input.setId])
            /\ UNCHANGED ret
    /\ UNCHANGED <<workouts, workoutExercises, sets, exercises, workoutsSeq,
                   workoutExercisesSeq, setsSeq, exercisesSeq, creator,
                   assignedOrders, tx, request>>

\* the delete of deleteSet, results[0] || null, and return { success: true }
deleteSetActionDelete(p) ==
    LET call == pending[p]
        results == {s \in sets : s.id = call.id}
    IN /\ call.pc = "write"
       /\ call.op = "deleteSetAction"
       /\ sets' = sets \ results
       /\ ret' = Responds("deleteSetAction", call.userId, call.id,
                          Returned(FirstOrNull(results), ""), results)
       /\ Returns(p)
       /\ UNCHANGED <<workouts, workoutExercises, exercises, workoutsSeq,
                      workoutExercisesSeq, setsSeq, exercisesSeq, creator,
                      assignedOrders, tx, request>>

\* removeExercise up to the select of removeExerciseFromWorkout and its throw
removeExerciseCheck(p, session, input) ==
    /\ ~InFlight(p)
    /\ IF session = Unauthenticated
       THEN /\ ret' = Responds("removeExercise", session, input.workoutExerciseId,
                               Failure(ErrUnauthorized), {})
            /\ UNCHANGED pending
       ELSE IF ~removeExerciseSchema(input)
       THEN /\ ret' = Responds("removeExercise", session, input.workoutExerciseId,
                               Failure(ErrValidation), {})
            /\ UNCHANGED pending
       ELSE IF ~OwnsWorkoutExercise(workoutExercises, workouts, session,
                                    input.workoutExerciseId)
       THEN /\ ret' = Responds("removeExercise", session, input.workoutExerciseId,
                               Returned(Throws(ErrWorkoutExercise), ""), {})
            /\ UNCHANGED pending
       ELSE /\ Begins(p, [pc |-> "delete", op |-> "removeExercise",
                          userId |-> session, id |-> input.workoutExerciseId])
            /\ UNCHANGED ret
    /\ UNCHANGED <<workouts, workoutExercises, sets, exercises, workoutsSeq,
                   workoutExercisesSeq, setsSeq, exercisesSeq, creator,
                   assignedOrders, tx, request>>

\* the delete of removeExerciseFromWorkout, results[0] || null, and
\* return { success: true }
removeExerciseDelete(p) ==
    LET call == pending[p]
        results == {we \in workoutExercises : we.id = call.id}
        wes == workoutExercises \ results
    IN /\ call.pc = "delete"
       /\ call.op = "removeExercise"
       /\ workoutExercises' = wes
       /\ sets' = CascadeSets(sets, wes)
       /\ ret' = [Responds("removeExercise", call.userId, call.id,
                           Returned(FirstOrNull(results), ""), results)
                     EXCEPT !.cascaded.sets = Ids(sets \ CascadeSets(sets, wes))]
       /\ Returns(p)
       /\ UNCHANGED <<workouts, exercises, workoutsSeq, workoutExercisesSeq,
                      setsSeq, exercisesSeq, creator, assignedOrders, tx, request>>

\* who calls the delete actions: the owner, another user, or nobody
DeleteSessions == {"alice", "bob", Unauthenticated}

\* Two clients call the delete actions on the store of InitSets while the
\* owner logs sets.
NextDeletes ==
    \/ \E we \in WorkoutExerciseIds :
          /\ setsSeq < MaxLoggedSets
          /\ createSet("alice", we, 1, 2000, 5)
          /\ UNCHANGED inFlight
    \/ \E p \in Processes, session \in DeleteSessions, s \in SetIds \cup {0} :
          deleteSetActionCheck(p, session, [setId |-> s, workoutId |-> 1])
    \/ \E p \in Processes : deleteSetActionDelete(p)
    \/ \E p \in Processes, session \in DeleteSessions,
          we \in WorkoutExerciseIds \cup {0} :
          removeExerciseCheck(p, session, [workoutExerciseId |-> we, workoutId |-> 1])
    \/ \E p \in Processes : removeExerciseDelete(p)

SpecDeletes == InitSets /\ [][NextDeletes]_vars

-----------------------------------------------------------------------------
(* addExercise called by two users, each with a workout of their own, and
   getAllExercises of data/exercises.ts, which the workout page of either
   user calls. *)

\* the characters of the names, as the database compares them
CharCode(c) == CASE c = "_" -> 32 [] c = "s" -> 115 [] c = "t" -> 116 [] OTHER -> 120

RECURSIVE NameBefore(_, _)
NameBefore(a, b) ==
    IF a = <<>> THEN TRUE
    ELSE IF b = <<>> THEN FALSE
    ELSE IF CharCode(Head(a)) # CharCode(Head(b))
    THEN CharCode(Head(a)) < CharCode(Head(b))
    ELSE NameBefore(Tail(a), Tail(b))

\* select().from(exercises).orderBy(exercises.name): no userId, no where
getAllExercises(es) ==
    {q \in [1..Cardinality(es) -> es] :
        \A i, j \in 1..Cardinality(es) :
            i < j => q[i] # q[j] /\ NameBefore(q[i].name, q[j].name)}

\* the workout page of the user lists the exercises
ReadAllExercises(userId) ==
    /\ \E list \in getAllExercises(exercises) :
          ret' = Call("getAllExercises", userId, 0, NoData, Rows(list))
    /\ UNCHANGED <<workouts, workoutExercises, sets, exercises, workoutsSeq,
                   workoutExercisesSeq, setsSeq, exercisesSeq, creator,
                   assignedOrders, tx, request, pending>>

\* exercise names as the two users type them
SharedNames == {<<"s">>, <<"_", "s", "_">>, <<"t">>}

\* the store after createWorkout of alice and createWorkout of bob
InitShared ==
    /\ workouts = {[id |-> 1, userId |-> "alice", name |-> "Push", startedAt |-> 1,
                    completedAt |-> Null],
                   [id |-> 2, userId |-> "bob", name |-> "Push", startedAt |-> 1,
                    completedAt |-> Null]}
    /\ workoutExercises = {}
    /\ sets = {}
    /\ exercises = {}
    /\ workoutsSeq = 2
    /\ workoutExercisesSeq = 0
    /\ setsSeq = 0
    /\ exercisesSeq = 0
    /\ creator = <<"alice", "bob">>
    /\ assignedOrders = <<(<<>>), (<<>>)>>
    /\ ret = Call("createWorkoutForUser", "bob", 0,
                  [name |-> "Push", startedAt |-> 1, completedAt |-> Null],
                  Row([id |-> 2, userId |-> "bob", name |-> "Push", startedAt |-> 1,
                       completedAt |-> Null]))
    /\ tx = NoTransaction
    /\ request = NoRequest
    /\ pending = [p \in Processes |-> Idle]

\* Either user adds exercises to a workout: their own, the other's, or one
\* that does not exist; between the actions either user lists the exercises.
NextShared ==
    \/ \E session \in Users, w \in 1..(workoutsSeq + 1), n \in SharedNames :
          /\ workoutExercisesSeq < MaxWorkoutExercises
          /\ Submit("addExercise", session, [workoutId |-> w, exerciseName |-> n])
    \/ StepAuth
    \/ StepParse
    \/ StepGetWorkoutByIdForUser
    \/ StepGetOrCreateExercise
    \/ StepAddExerciseToWorkout
    \/ \E u \in Users : Settled /\ ReadAllExercises(u)

SpecShared == InitShared /\ [][NextShared]_vars

-----------------------------------------------------------------------------
(* updateSet of data/sets.ts, statement by statement, on a workout exercise
   that holds several sets: two processes of the owner update the sets the
   owner logs and deletes. *)

NextUpdates ==
    \/ \E we \in WorkoutExerciseIds :
          /\ setsSeq < MaxLoggedSets
          /\ createSet("alice", we, setsSeq + 1, 2000, 5)
          /\ UNCHANGED inFlight
    \/ \E p \in Processes, s \in SetIds : updateSetCheck(p, "alice", s, 2250, 8)
    \/ \E p \in Processes : updateSetWrite(p)
    \/ \E s \in SetIds : deleteSet("alice", s) /\ UNCHANGED inFlight

SpecUpdates == InitSets /\ [][NextUpdates]_vars

-----------------------------------------------------------------------------
(* Ownership, read off the rows and their references *)

\* the users owning the workout with this id (at most one)
WorkoutOwners(workoutId) ==
    {w.userId : w \in {x \in workouts : x.id = workoutId}}

\* the users owning the workout at the root of this workout exercise
WorkoutExerciseOwners(workoutExerciseId) ==
    UNION {WorkoutOwners(we.workoutId) :
             we \in {x \in workoutExercises : x.id = workoutExerciseId}}

\* the users owning the workout at the root of this set
SetOwners(setId) ==
    UNION {WorkoutExerciseOwners(s.workoutExerciseId) :
             s \in {x \in sets : x.id = setId}}

-----------------------------------------------------------------------------
(* C1 - Isolation.  In every reachable state, for every stored workout w and
   every user u: getWorkoutByIdForUser(u, w.id) returns w when u is the user
   that created w, and null (the same value as for an id that is not stored,
   no error and no other signal) when u is any other user. *)
C1_Isolation ==
    \A w \in workouts : \A u \in Users :
        getWorkoutByIdForUser(workouts, u, w.id) =
            IF u = creator[w.id] THEN Row(w) ELSE ReturnsNull

\* alice's workout, updated since its creation, next to a workout of bob
C1_Witness ==
    \E w \in workouts :
        /\ creator[w.id] = "alice"
        /\ w.name = "Legs"
        /\ getWorkoutByIdForUser(workouts, "bob", w.id) = ReturnsNull
        /\ \E v \in workouts : creator[v.id] = "bob"

(* C2 - Transitive isolation.  Every updateSet(B, s.id, ..) call on a stored
   set s whose root workout is owned by a user other than B throws "Set not
   found or access denied" and leaves every table as it was. *)
C2_TransitiveIsolation ==
    [][(/\ ret'.op = "updateSet"
        /\ SetOwners(ret'.id) # {}
        /\ ret'.userId \notin SetOwners(ret'.id))
         => /\ ret'.out = Throws(ErrSet)
            /\ tables' = tables]_vars

\* bob's updateSet on a set of alice's workout has thrown
C2_Witness ==
    /\ ret.op = "updateSet"
    /\ ret.userId = "bob"
    /\ SetOwners(ret.id) = {"alice"}
    /\ ret.out = Throws(ErrSet)

(* C3 - Ownership gate on child entities.  A call of addExerciseToWorkout,
   removeExerciseFromWorkout, createSet or deleteSet changes a table only
   when the caller owns the workout at the root of its target (the workout
   for addExerciseToWorkout, the workout exercise for removeExerciseFromWorkout
   and createSet, the set for deleteSet); when the caller does not own it, or
   the target is not stored, the call throws and every table is unchanged. *)
C3_TargetOwners(op, id) ==
    CASE op = "addExerciseToWorkout" -> WorkoutOwners(id)
      [] op \in {"removeExerciseFromWorkout", "createSet"} -> WorkoutExerciseOwners(id)
      [] op = "deleteSet" -> SetOwners(id)

C3_OwnershipGate ==
    [][ret'.op \in {"addExerciseToWorkout", "removeExerciseFromWorkout",
                    "createSet", "deleteSet"}
         => \/ ret'.userId \in C3_TargetOwners(ret'.op, ret'.id)
            \/ /\ ret'.out.kind = "error"
               /\ tables' = tables]_vars

\* bob's createSet on a workout exercise of alice's workout has thrown
C3_Witness ==
    /\ ret.op = "createSet"
    /\ ret.userId = "bob"
    /\ WorkoutExerciseOwners(ret.id) = {"alice"}
    /\ ret.out.kind = "error"
    /\ sets = {}

\* what a call of op answers when it finds nothing it may touch
C4_NotFound(op) ==
    CASE op \in {"updateWorkoutForUser", "deleteWorkoutForUser"} -> ReturnsNull
      [] op \in {"removeExerciseFromWorkout", "createSet"} -> Throws(ErrWorkoutExercise)
      [] op \in {"updateSet", "deleteSet"} -> Throws(ErrSet)

C4_TargetOwners(op, id) ==
    CASE op \in {"updateWorkoutForUser", "deleteWorkoutForUser"} -> WorkoutOwners(id)
      [] op \in {"removeExerciseFromWorkout", "createSet"} -> WorkoutExerciseOwners(id)
      [] op \in {"updateSet", "deleteSet"} -> SetOwners(id)

\* the store without workout w and the rows that hang from it
C4_WithoutWorkoutExercises(w) ==
    CascadeWorkoutExercises(workoutExercises, workouts \ {w})

\* for a workout of another user the two reads answer what they answer in the
\* store that differs only in not holding that workout: null
C4_Reads ==
    \A w \in workouts : \A u \in Users \ {w.userId} :
        /\ getWorkoutByIdForUser(workouts, u, w.id) = ReturnsNull
        /\ getWorkoutByIdForUser(workouts \ {w}, u, w.id) = ReturnsNull
        /\ getWorkoutExercisesWithSets(workouts, workoutExercises, exercises, sets,
                                       u, w.id) = {ReturnsNull}
        /\ getWorkoutExercisesWithSets(workouts \ {w}, C4_WithoutWorkoutExercises(w),
               exercises, CascadeSets(sets, C4_WithoutWorkoutExercises(w)),
               u, w.id) = {ReturnsNull}

(* C4 - Existence is not leaked.  For a caller who does not own the target,
   the outcome of a call depends on the function alone, not on whether the
   target is stored under another user's workout or not stored at all:
   getWorkoutByIdForUser and getWorkoutExercisesWithSets answer null,
   updateWorkoutForUser and deleteWorkoutForUser return null,
   removeExerciseFromWorkout and createSet throw "Workout exercise not found
   or access denied", updateSet and deleteSet throw "Set not found or access
   denied"; and the call changes no table. *)
C4_ExistenceNotLeaked ==
    /\ []C4_Reads
    /\ [][(/\ ret'.op \in {"updateWorkoutForUser", "deleteWorkoutForUser",
                            "removeExerciseFromWorkout", "createSet",
                            "updateSet", "deleteSet"}
            /\ ret'.userId \notin C4_TargetOwners(ret'.op, ret'.id))
             => /\ ret'.out = C4_NotFound(ret'.op)
                /\ tables' = tables]_vars

\* bob's removeExerciseFromWorkout on a workout exercise of alice's workout has
\* thrown the error that a missing workout exercise throws
C4_Witness ==
    /\ ret.op = "removeExerciseFromWorkout"
    /\ ret.userId = "bob"
    /\ WorkoutExerciseOwners(ret.id) = {"alice"}
    /\ ret.out = Throws(ErrWorkoutExercise)
    /\ \E w \in workouts :
          getWorkoutExercisesWithSets(workouts, workoutExercises, exercises, sets,
                                      "bob", w.id) = {ReturnsNull}

WorkoutColumns == {"name", "startedAt", "completedAt"}

(* C5 - Atomic workout update.  A call updateWorkoutForUser(userId, workoutId,
   data) either finds the row with that id and that userId, replaces it by the
   row in which every column named in data holds data's value and every other
   column is as before, and returns that row; or finds no such row, returns
   null and changes nothing.  No other row of any table changes. *)
C5_AtomicUpdate ==
    [][ret'.op = "updateWorkoutForUser"
         => LET matched == {w \in workouts :
                               w.id = ret'.id /\ w.userId = ret'.userId}
            IN /\ UNCHANGED <<workoutExercises, sets, exercises>>
               /\ IF matched = {}
                  THEN ret'.out = ReturnsNull /\ workouts' = workouts
                  ELSE \E w \in matched : \E n \in workouts' :
                          /\ workouts' = (workouts \ {w}) \cup {n}
                          /\ n.id = w.id /\ n.userId = w.userId
                          /\ \A c \in WorkoutColumns :
                                n[c] = IF c \in DOMAIN ret'.data
                                       THEN ret'.data[c] ELSE w[c]
                          /\ ret'.out = Row(n)]_vars

\* an update naming three columns has returned the row that holds all three
C5_Witness ==
    /\ ret.op = "updateWorkoutForUser"
    /\ DOMAIN ret.data = WorkoutColumns
    /\ ret.out.kind = "row"
    /\ ret.out.row \in workouts
    /\ \A c \in WorkoutColumns : ret.out.row[c] = ret.data[c]

\* the workout exercises of workout id, and the sets under them
C6_WorkoutExercisesOf(workoutId) ==
    {we \in workoutExercises : we.workoutId = workoutId}

C6_SetsOf(workoutId) ==
    {s \in sets : \E we \in C6_WorkoutExercisesOf(workoutId) :
                     s.workoutExerciseId = we.id}

\* every id issued so far whose row is no longer stored reads as not found
C6_GoneReads ==
    \A id \in (1..workoutsSeq) \ Ids(workouts) : \A u \in Users :
        /\ getWorkoutByIdForUser(workouts, u, id) = ReturnsNull
        /\ getWorkoutExercisesWithSets(workouts, workoutExercises, exercises, sets,
                                       u, id) = {ReturnsNull}

(* C6 - Cascade on workout delete.  A deleteWorkoutForUser call that returns a
   row removes, in the same step, all N workout exercises of that workout and
   all M sets under them.  A removed row never comes back, and every later
   call that targets one reports not found: the reads answer null,
   addExerciseToWorkout throws "Workout not found or access denied",
   removeExerciseFromWorkout and createSet throw "Workout exercise not found
   or access denied", updateSet and deleteSet throw "Set not found or access
   denied". *)
C6_CascadeOnDelete ==
    /\ []C6_GoneReads
    /\ [][/\ (ret'.op = "deleteWorkoutForUser" /\ ret'.out.kind = "row")
               => /\ Ids(workouts') = Ids(workouts) \ {ret'.id}
                  /\ Ids(workoutExercises') =
                         Ids(workoutExercises) \ Ids(C6_WorkoutExercisesOf(ret'.id))
                  /\ Ids(sets') = Ids(sets) \ Ids(C6_SetsOf(ret'.id))
                  /\ ret'.cascaded = [workoutExercises |-> Ids(C6_WorkoutExercisesOf(ret'.id)),
                                      sets |-> Ids(C6_SetsOf(ret'.id))]
          /\ (1..workoutsSeq) \ Ids(workouts) \subseteq (1..workoutsSeq') \ Ids(workouts')
          /\ (1..workoutExercisesSeq) \ Ids(workoutExercises)
                 \subseteq (1..workoutExercisesSeq') \ Ids(workoutExercises')
          /\ (1..setsSeq) \ Ids(sets) \subseteq (1..setsSeq') \ Ids(sets')
          /\ (ret'.op = "addExerciseToWorkout" /\ ret'.id \notin Ids(workouts))
               => ret'.out = Throws(ErrWorkout)
          /\ (ret'.op \in {"updateWorkoutForUser", "deleteWorkoutForUser"}
                /\ ret'.id \notin Ids(workouts))
               => ret'.out = ReturnsNull
          /\ (ret'.op \in {"removeExerciseFromWorkout", "createSet"}
                /\ ret'.id \notin Ids(workoutExercises))
               => ret'.out = Throws(ErrWorkoutExercise)
          /\ (ret'.op \in {"updateSet", "deleteSet"} /\ ret'.id \notin Ids(sets))
               => ret'.out = Throws(ErrSet)]_vars

\* a delete has taken a workout exercise and a set with the workout
C6_Witness ==
    /\ ret.op = "deleteWorkoutForUser"
    /\ ret.out.kind = "row"
    /\ ret.cascaded.workoutExercises # {}
    /\ ret.cascaded.sets # {}
    /\ ret.cascaded.workoutExercises \cap Ids(workoutExercises) = {}
    /\ ret.cascaded.sets \cap Ids(sets) = {}

(* C7 - Delete requires ownership.  deleteWorkoutForUser(userId, workoutId)
   deletes a workout row only when that row's id is workoutId and its userId
   is userId, and then returns it; otherwise it returns null and workouts,
   workout_exercises and sets are unchanged. *)
C7_DeleteRequiresOwnership ==
    [][ret'.op = "deleteWorkoutForUser"
         => LET matched == {w \in workouts :
                               w.id = ret'.id /\ w.userId = ret'.userId}
            IN IF matched = {}
               THEN /\ ret'.out = ReturnsNull
                    /\ UNCHANGED <<workouts, workoutExercises, sets>>
               ELSE \E w \in matched :
                       /\ ret'.out = Row(w)
                       /\ workouts' = workouts \ {w}]_vars

\* bob's delete of alice's workout has returned null; the workout, its
\* workout exercise and its set are stored
C7_Witness ==
    /\ ret.op = "deleteWorkoutForUser"
    /\ ret.userId = "bob"
    /\ ret.out = ReturnsNull
    /\ WorkoutOwners(ret.id) = {"alice"}
    /\ C6_WorkoutExercisesOf(ret.id) # {}
    /\ C6_SetsOf(ret.id) # {}

\* everything user u can read: the four read functions over all their arguments
C8_Reads(u) ==
    [all    |-> getWorkoutsForUser(workouts, u),
     onDate |-> [a \in Dates, b \in Dates |->
                    getWorkoutsForUserOnDate(workouts, u, a, b)],
     byId   |-> [id \in 1..MaxWorkouts |-> getWorkoutByIdForUser(workouts, u, id)],
     tree   |-> [id \in 1..MaxWorkouts |->
                    getWorkoutExercisesWithSets(workouts, workoutExercises,
                                                exercises, sets, u, id)]]

\* every workout row a read hands to u carries u's userId
C8_ReadsOwnOnly(u) ==
    /\ \A q \in getWorkoutsForUser(workouts, u) : \A i \in DOMAIN q : q[i].userId = u
    /\ \A a \in Dates, b \in Dates :
          \A q \in getWorkoutsForUserOnDate(workouts, u, a, b) :
             \A i \in DOMAIN q : q[i].userId = u
    /\ \A id \in 1..MaxWorkouts :
          LET found == getWorkoutByIdForUser(workouts, u, id)
          IN found.kind = "row" => found.row.userId = u

(* C8 - Read non-interference.  No call made by another user (nor a call of
   getOrCreateExercise, which carries no user) changes the result of any read
   of user B: getWorkoutsForUser, getWorkoutsForUserOnDate,
   getWorkoutByIdForUser and getWorkoutExercisesWithSets answer after the call
   what they answered before it, so B's reads are a function of B's own calls;
   and every workout a read returns to B has userId = B. *)
C8_ReadNonInterference ==
    /\ [](\A u \in Users : C8_ReadsOwnOnly(u))
    /\ [][\A u \in Users :
            (ret'.userId # u /\ tables' # tables) => C8_Reads(u)' = C8_Reads(u)]_vars

\* alice has just deleted a workout of hers with what hung from it, while bob
\* has a workout that his reads return
C8_Witness ==
    /\ ret.op = "deleteWorkoutForUser"
    /\ ret.userId = "alice"
    /\ ret.out.kind = "row"
    /\ ret.cascaded.workoutExercises # {}
    /\ \E w \in workouts :
          /\ w.userId = "bob"
          /\ <<w>> \in getWorkoutsForUser(workouts, "bob")
          /\ getWorkoutByIdForUser(workouts, "bob", w.id) = Row(w)

(* C9 - Ownership is immutable.  A workout's userId is the userId passed to
   the createWorkoutForUser call that made it, and no step changes the userId
   of a stored workout. *)
C9_OwnershipImmutable ==
    [][/\ \A w \in workouts' : w.userId = creator'[w.id]
       /\ \A w \in workouts : \A n \in workouts' :
             n.id = w.id => n.userId = w.userId]_vars

\* alice's workout has been updated, bob's call on it has found nothing, and
\* it is still alice's
C9_Witness ==
    /\ ret.op = "updateWorkoutForUser"
    /\ ret.userId = "bob"
    /\ ret.out = ReturnsNull
    /\ \E w \in workouts :
          /\ w.id = ret.id
          /\ w.name = "Legs"
          /\ creator[w.id] = "alice"
          /\ w.userId = "alice"

\* the order values of the workout exercises of workout id
C10_Orders(workoutId) ==
    {we.order : we \in C6_WorkoutExercisesOf(workoutId)}

(* C10 - Exercise order assignment.  An addExerciseToWorkout call that inserts
   gives the new workout exercise order 0 when the workout has no workout
   exercise, and otherwise one more than the largest order among the workout
   exercises the workout has at that moment; the workout's other rows keep
   their order.  So three adds to an empty workout get 0, 1, 2, and after the
   second is removed a fourth add gets 3. *)
C10_OrderAssignment ==
    [][(ret'.op = "addExerciseToWorkout" /\ ret'.out.kind = "row")
         => LET orders == C10_Orders(ret'.id)
                added == ret'.out.row
            IN /\ added.workoutId = ret'.id
               /\ workoutExercises' = workoutExercises \cup {added}
               /\ added \notin workoutExercises
               /\ IF orders = {}
                  THEN added.order = 0
                  ELSE /\ added.order - 1 \in orders
                       /\ \A o \in orders : o < added.order]_vars

\* a workout got orders 0, 1, 2, lost the exercise with order 1, and the add
\* that followed returned order 3
C10_Witness ==
    /\ ret.op = "addExerciseToWorkout"
    /\ ret.out.kind = "row"
    /\ ret.out.row.order = 3
    /\ ret.out.row.id = 4
    /\ {<<we.id, we.order>> : we \in C6_WorkoutExercisesOf(ret.id)}
          = {<<1, 0>>, <<3, 2>>, <<4, 3>>}

\* the order values given so far to the inserts into workout id
C11_AssignedEarlier(workoutId) ==
    {assignedOrders[workoutId][i] : i \in DOMAIN assignedOrders[workoutId]}

(* C11 as claimed - Order values are never reused.  An addExerciseToWorkout
   call that inserts never gives the new workout exercise an order value that
   an earlier insert into the same workout was given, whether or not that
   workout exercise is still stored. *)
C11_NeverReused ==
    [][(ret'.op = "addExerciseToWorkout" /\ ret'.out.kind = "row")
         => ret'.out.row.order \notin C11_AssignedEarlier(ret'.id)]_vars

(* C11 as amended - Order values are not reused among the stored rows and
   rows are not renumbered.  An addExerciseToWorkout call that inserts gives
   the new workout exercise an order value larger than that of every workout
   exercise the workout has at that moment, so a value given earlier is given
   again only when the workout exercise that had it, and every one with a
   larger value, has been removed; and no call changes the order of a stored
   workout exercise. *)
C11_NotReusedAmongStored ==
    [][/\ (ret'.op = "addExerciseToWorkout" /\ ret'.out.kind = "row")
            => /\ \A o \in C10_Orders(ret'.id) : o < ret'.out.row.order
               /\ ret'.out.row.order \in C11_AssignedEarlier(ret'.id)
                     => \A we \in C6_WorkoutExercisesOf(ret'.id) :
                           we.order # ret'.out.row.order
       /\ \A we \in workoutExercises : \A n \in workoutExercises' :
             n.id = we.id => n.order = we.order]_vars

\* a workout was given order 1 twice: the workout exercise that had it was
\* removed, and the one stored with it now came from the last add
C11_Witness ==
    /\ ret.op = "addExerciseToWorkout"
    /\ ret.out.kind = "row"
    /\ ret.out.row.order = 1
    /\ assignedOrders[ret.id] = <<0, 1, 1>>
    /\ C10_Orders(ret.id) = {0, 1}
    /\ ret.out.row \in workoutExercises

\* the workouts of user u that the day's query must return: started on or
\* before the day, and not completed or completed on or after it
C12_ActiveOn(u, day) ==
    {w \in workouts : /\ w.userId = u
                      /\ DayOf(w.startedAt) <= day
                      /\ (w.completedAt = Null \/ DayOf(w.completedAt) >= day)}

(* C12 - Active on date.  getWorkoutsForUserOnDate(userId, dayStart, dayEnd)
   returns exactly the caller's workouts with startedAt <= dayEnd and
   completedAt null or >= dayStart, each once, ordered by startedAt.  So for
   the first and last instant of a day it returns the caller's workouts that
   started on that day or earlier and are not completed or were completed on
   that day or later: a workout started on day 1 and completed on day 5 is
   returned for days 1..5 and not for day 0 or 6, and a workout that is not
   completed for every day from its start day on and for none before. *)
C12_ActiveOnDate ==
    ret.op = "getWorkoutsForUserOnDate"
      => LET q == ret.out.row.list
             returned == {q[i] : i \in DOMAIN q}
         IN /\ ret.out.kind = "rows"
            /\ returned = {w \in workouts :
                              /\ w.userId = ret.userId
                              /\ w.startedAt <= ret.data.endOfDay
                              /\ (w.completedAt = Null
                                    \/ w.completedAt >= ret.data.startOfDay)}
            /\ Len(q) = Cardinality(returned)
            /\ \A i, j \in DOMAIN q : i < j => q[i].startedAt <= q[j].startedAt
            /\ returned = C12_ActiveOn(ret.userId, ret.id)
            /\ \A w \in workouts :
                  (/\ w.userId = ret.userId
                   /\ DayOf(w.startedAt) = 1
                   /\ w.completedAt # Null
                   /\ DayOf(w.completedAt) = 5)
                    => (w \in returned <=> ret.id \in 1..5)

\* the query for day 5 has returned alice two workouts in the order of their
\* start, one of them started on day 1 and completed on day 5
C12_Witness ==
    /\ ret.op = "getWorkoutsForUserOnDate"
    /\ ret.userId = "alice"
    /\ ret.id = 5
    /\ Len(ret.out.row.list) = 2
    /\ ret.out.row.list[1].startedAt = EndOfDay(1)
    /\ ret.out.row.list[1].completedAt = StartOfDay(5)
    /\ ret.out.row.list[2].completedAt = Null

(* C13 - Get-or-create idempotence.  When a getOrCreateExercise(n2) call
   follows a getOrCreateExercise(n1) call and n1 and n2 are equal after
   trimming the surrounding whitespace, the second call returns the row the
   first returned, inserts nothing, and the exercises table holds exactly one
   row with the trimmed name. *)
C13_GetOrCreateIdempotent ==
    [][(/\ ret.op = "getOrCreateExercise"
        /\ ret'.op = "getOrCreateExercise"
        /\ Trim(ret.data.name) = Trim(ret'.data.name))
         => /\ ret.out.kind = "row"
            /\ ret'.out = ret.out
            /\ ret'.out.row.name = Trim(ret'.data.name)
            /\ exercises' = exercises
            /\ exercisesSeq' = exercisesSeq
            /\ Cardinality({e \in exercises' : e.name = Trim(ret'.data.name)}) = 1]_vars

\* a call with a name padded with whitespace has returned the row stored
\* earlier under the trimmed name
C13_Witness ==
    /\ ret.op = "getOrCreateExercise"
    /\ ret.data.name = <<"_", "s", "_">>
    /\ ret.out = Row([id |-> 1, name |-> <<"s">>])
    /\ exercisesSeq = 2
    /\ Cardinality(exercises) = 2

\* the rows of workout exercises as copies are compared: exercise and order
C14_Copied(rows) == {<<we.exerciseId, we.order>> : we \in rows}

(* C14 - Duplicate-workout atomicity.  duplicateWorkout(userId, workoutId)
   either commits, in one step, the new workout row together with one copy of
   each exercise it read from the original, or - when there is no signed-in
   user, the caller does not own the original, or the copy statement throws -
   ends with an error and leaves every table as it was.  No state another
   call can read holds a row the transaction has written and not committed,
   so the new workout is never seen without its exercise copies. *)
C14_DuplicateAtomic ==
    /\ [](tx.pc # "idle"
            => /\ tx.newWorkout \notin workouts
               /\ tx.copies \cap workoutExercises = {})
    /\ [][/\ (tx.pc # "idle" /\ tx'.pc = "idle")
               => \/ /\ ret'.out = Row(tx.newWorkout)
                     /\ ret'.out.row.userId = ret'.userId
                     /\ workouts' = workouts \cup {ret'.out.row}
                     /\ workoutExercises \subseteq workoutExercises'
                     /\ \A we \in workoutExercises' \ workoutExercises :
                           we.workoutId = ret'.out.row.id
                     /\ Cardinality(workoutExercises' \ workoutExercises)
                           = Cardinality(tx.exercises)
                     /\ C14_Copied(workoutExercises' \ workoutExercises)
                           = C14_Copied(tx.exercises)
                  \/ /\ ret'.out.kind = "error"
                     /\ tables' = tables
          /\ (tx.pc = "idle" /\ tx'.pc = "idle" /\ ret'.op = "duplicateWorkout")
               => /\ ret'.out.kind = "error"
                  /\ ret'.userId \notin WorkoutOwners(ret'.id)
                  /\ tables' = tables
          /\ (tx.pc = "idle" /\ tx'.pc # "idle")
               => tx'.userId \in WorkoutOwners(tx'.workoutId)
          /\ (tx' # tx /\ tx'.pc # "idle") => tables' = tables]_vars

\* a duplicate of alice's workout has been committed with the copy of its
\* exercise, after an exercise was added to the original during the
\* transaction
C14_Witness ==
    /\ ret.op = "duplicateWorkout"
    /\ ret.userId = "alice"
    /\ ret.out.kind = "row"
    /\ ret.out.row.name = "Push (Copy)"
    /\ ret.out.row \in workouts
    /\ C14_Copied(C6_WorkoutExercisesOf(ret.out.row.id)) = {<<1, 0>>}
    /\ C14_Copied(C6_WorkoutExercisesOf(ret.id)) = {<<1, 0>>, <<1, 1>>}
    /\ tx = NoTransaction

\* what getWorkoutExercisesWithSets(u, workoutId) can return in this state
C15_Tree(u, workoutId) ==
    getWorkoutExercisesWithSets(workouts, workoutExercises, exercises, sets,
                                u, workoutId)

(* C15 - getWorkoutExercisesWithSets(userId, workoutId) returns null exactly
   when the caller owns no workout with that id, and then it has queried the
   workouts table only, not workout_exercises or sets; when the caller owns
   the workout it returns a list, which is the empty list and not null when
   the workout has no workout exercises. *)
C15_NullOnlyWhenNotOwned ==
    \A u \in Users : \A id \in 1..(workoutsSeq + 1) :
        LET queries == getWorkoutExercisesWithSetsQueries(workouts, u, id)
        IN /\ C15_Tree(u, id) # {}
           /\ ReturnsNull \in C15_Tree(u, id) <=> u \notin WorkoutOwners(id)
           /\ u \notin WorkoutOwners(id)
                => /\ C15_Tree(u, id) = {ReturnsNull}
                   /\ \A i \in DOMAIN queries :
                         queries[i] \cap {"workout_exercises", "sets"} = {}
           /\ u \in WorkoutOwners(id)
                => /\ \A r \in C15_Tree(u, id) : r.kind = "rows"
                   /\ C6_WorkoutExercisesOf(id) = {} => C15_Tree(u, id) = {Rows(<<>>)}

\* alice reads the empty list for her workout without exercises, where bob
\* reads null, and a list of one for her workout with an exercise
C15_Witness ==
    \E w \in workouts : \E v \in workouts :
        /\ w.userId = "alice"
        /\ C15_Tree("alice", w.id) = {Rows(<<>>)}
        /\ C15_Tree("bob", w.id) = {ReturnsNull}
        /\ v.userId = "alice"
        /\ \A r \in C15_Tree("alice", v.id) : Len(r.row.list) = 1

-----------------------------------------------------------------------------
\* the calls of a server action that read or write the store
C16_StoreCalls ==
    {"getWorkoutByIdForUser", "createWorkoutForUser", "updateWorkoutForUser",
     "deleteWorkoutForUser", "getOrCreateExercise", "addExerciseToWorkout",
     "removeExerciseFromWorkout", "createSet", "updateSet", "deleteSet"}

(* C16 - Check ordering.  In every server action a call that reads or writes
   the store comes after auth() with a signed-in user and after a parse of the
   input that did not throw, in this order.  A call without a user has thrown
   'Unauthorized' after auth() alone, and a call of a user with an input the
   schema rejects has thrown the validation error after auth() and parse()
   alone; and no step of an action that has made no store call so far changes
   a table, an identity or the record of the last data-layer call. *)
C16_CheckOrdering ==
    /\ [](LET c == request.calls
          IN /\ \A i \in DOMAIN c :
                   c[i] \in C16_StoreCalls
                     => /\ i >= 3 /\ c[1] = "auth" /\ c[2] = "parse"
                        /\ request.session # Unauthenticated
                        /\ Parses(request.action, request.input)
             /\ (Settled /\ request.action \in ServerActions)
                   => /\ request.session = Unauthenticated
                           => /\ request.response = Failure(ErrUnauthorized)
                              /\ c = <<"auth">>
                      /\ (/\ request.session # Unauthenticated
                          /\ ~Parses(request.action, request.input))
                           => /\ request.response = Failure(ErrValidation)
                              /\ c = <<"auth", "parse">>)
    /\ [][(\A i \in DOMAIN request'.calls : request'.calls[i] \notin C16_StoreCalls)
             => /\ tables' = tables
                /\ ret' = ret
                /\ UNCHANGED <<workoutsSeq, workoutExercisesSeq, setsSeq, exercisesSeq>>]_vars

\* logSet of a negative weight for the caller's own workout exercise has thrown
\* the validation error
C16_Witness ==
    /\ request.action = "logSet"
    /\ request.session = "alice"
    /\ request.input.weightKg = <<"-", "5">>
    /\ OwnsWorkoutExercise(workoutExercises, workouts, "alice",
                           request.input.workoutExerciseId)
    /\ request.response = Failure(ErrValidation)

-----------------------------------------------------------------------------
(* C17 - Stored-value invariant.  After any sequence of server actions every
   stored set has setNumber >= 1, reps >= 1 and a weightKg that is a
   non-negative number of hundredths (the column is numeric(6, 2)), and every
   stored workout has a name of 1 to 255 characters. *)
C17_StoredValues ==
    /\ \A s \in sets :
          /\ s.setNumber >= 1
          /\ s.reps >= 1
          /\ s.weightKg \in Nat
    /\ \A w \in workouts : Len(w.name) >= 1 /\ Len(w.name) <= 255

\* a set logged as 20 kg x 5 and updated to 22.5 kg x 8, in a renamed workout
C17_Witness ==
    /\ request.action = "updateSetAction"
    /\ request.response = Success
    /\ \E s \in sets : s.weightKg = 2250 /\ s.reps = 8 /\ s.setNumber = 1
    /\ \E w \in workouts : w.name = "Legs"

-----------------------------------------------------------------------------
(* C18 - Exercise rows are immutable reference data.  No call of the data
   layer removes an exercise row or changes its id or name: every row stored
   before the call is stored after it, and a row it adds has an id no stored
   row has.  deleteWorkoutForUser, removeExerciseFromWorkout and deleteSet
   leave the exercises table as it is. *)
C18_ExercisesImmutable ==
    [][/\ exercises \subseteq exercises'
       /\ \A e \in exercises' \ exercises : e.id \notin Ids(exercises)
       /\ ret'.op \in {"deleteWorkoutForUser", "removeExerciseFromWorkout", "deleteSet"}
            => exercises' = exercises]_vars

\* a workout exercise was removed, and the exercise it referred to is stored
C18_Witness ==
    /\ ret.op = "removeExerciseFromWorkout"
    /\ ret.out.kind = "row"
    /\ ret.out.row.exerciseId \in Ids(exercises)
    /\ ret.out.row \notin workoutExercises

-----------------------------------------------------------------------------
\* the rows a step inserted, updated or deleted
C19_Written(before, after) == (before \ after) \cup (after \ before)

(* C19 - No cross-user write under any interleaving.  When the calls of
   addExerciseToWorkout, removeExerciseFromWorkout, createSet, updateSet and
   deleteSet run statement by statement among the calls of other users
   (creating and deleting workouts included), the statement after the check
   writes no workout, and every workout exercise or set it inserts, updates or
   deletes has a stored root workout owned by the user the call was made for;
   the check itself, passing or throwing, writes nothing. *)
C19_NoCrossUserWrite ==
    [][\A p \in Processes :
          /\ (InFlight(p) /\ pending'[p] # pending[p])
               => /\ workouts' = workouts
                  /\ \A we \in C19_Written(workoutExercises, workoutExercises') :
                        WorkoutOwners(we.workoutId) = {pending[p].userId}
                  /\ \A s \in C19_Written(sets, sets') :
                        \E we \in workoutExercises :
                           /\ we.id = s.workoutExerciseId
                           /\ WorkoutOwners(we.workoutId) = {pending[p].userId}
          /\ (~InFlight(p) /\ pending'[p] # pending[p]) => tables' = tables
          /\ (pending' = pending /\ ret'.out.kind = "error") => tables' = tables]_vars

\* bob's insert of a workout exercise failed on the foreign key: his workout was
\* deleted after the check, and alice has created a workout since
C19_Witness ==
    /\ ret.op = "addExerciseToWorkout"
    /\ ret.userId = "bob"
    /\ ret.out = Throws(ErrForeignKey)
    /\ creator[ret.id] = "bob"
    /\ ret.id \notin Ids(workouts)
    /\ \E w \in workouts : w.userId = "alice" /\ w.id > ret.id

-----------------------------------------------------------------------------
(* C20 - Delayed not-found on concurrent parent deletion.  When the write of
   updateSet or deleteSet runs after the workout its check found, or the set
   itself, has been deleted, it matches no row: the call returns null and no
   table changes.  A set id that is no longer stored is never stored again, a
   check passes only for a stored set, and an updateSet or deleteSet call that
   begins on an id that is not stored throws the not-found error. *)
C20_DelayedNotFound ==
    [][/\ \A p \in Processes :
            /\ (pending[p].pc = "write" /\ pending'[p] # pending[p])
                 => ((\/ pending[p].verified.workout.id \notin Ids(workouts)
                      \/ pending[p].id \notin Ids(sets))
                       => /\ ret'.op = pending[p].op
                          /\ ret'.id = pending[p].id
                          /\ ret'.out = ReturnsNull
                          /\ tables' = tables)
            /\ (~InFlight(p) /\ pending'[p].pc = "write")
                 => pending'[p].id \in Ids(sets)
       /\ \A s \in 1..setsSeq : s \notin Ids(sets) => s \notin Ids(sets')
       /\ (/\ pending' = pending
           /\ ret' # ret
           /\ ret'.op \in {"updateSet", "deleteSet"}
           /\ ret'.id \notin Ids(sets))
            => ret'.out = Throws(ErrSet) /\ tables' = tables]_vars

\* updateSet has returned null: the workout of the set was deleted after the check
C20_Witness ==
    /\ ret.op = "updateSet"
    /\ ret.out = ReturnsNull
    /\ ret.id \in 1..setsSeq
    /\ ret.id \notin Ids(sets)
    /\ creator # <<>>
    /\ workouts = {}

-----------------------------------------------------------------------------
(* C21 - Order uniqueness.  In every reachable state, the states reached when
   two addExerciseToWorkout calls on one workout interleave between their
   max(order) read and their insert included, no two workout exercises of the
   same workout have the same order value. *)
C21_OrderUnique ==
    \A a, b \in workoutExercises :
        (a.workoutId = b.workoutId /\ a.order = b.order) => a = b

-----------------------------------------------------------------------------
(* C22 - Get-or-create race.  The insert of a getOrCreateExercise call whose
   lookup found nothing stores the row when no row has the trimmed name, and
   otherwise (another call inserted the name after this call's lookup) fails
   on the unique constraint: the call throws and the table is unchanged.  In
   no interleaving do two exercise rows have the same name. *)
C22_GetOrCreateRace ==
    /\ [](\A a, b \in exercises : a.name = b.name => a = b)
    /\ [][\A p \in Processes :
            (pending[p].pc = "create" /\ pending'[p] # pending[p])
              => IF getExerciseByName(exercises, pending[p].name).kind = "row"
                 THEN /\ ret'.out = Throws(ErrUnique)
                      /\ ret'.data.name = pending[p].name
                      /\ exercises' = exercises
                 ELSE /\ ret'.out.kind = "row"
                      /\ ret'.out.row.name = Trim(pending[p].name)
                      /\ exercises' = exercises \cup {ret'.out.row}]_vars

\* the second insert of the name "s", typed with whitespace around it, has failed
C22_Witness ==
    /\ ret.op = "getOrCreateExercise"
    /\ ret.out = Throws(ErrUnique)
    /\ ret.data.name = <<"_", "s", "_">>
    /\ \E e \in exercises : e.name = <<"s">>
    /\ exercisesSeq = 2

-----------------------------------------------------------------------------
(* C23 - setNumber is strictly increasing per workout exercise.  When one
   session logs sets with the number of sets shown plus one and deletes sets,
   each set createSet stores has a setNumber greater than the setNumber of
   every set stored for its workout exercise before. *)
C23_SetNumberIncreasing ==
    [][(ret'.op = "createSet" /\ ret'.out.kind = "row" /\ ret'.out.row \notin sets)
         => \A s \in sets :
               s.workoutExerciseId = ret'.out.row.workoutExerciseId
                 => ret'.out.row.setNumber > s.setNumber]_vars

-----------------------------------------------------------------------------
(* C24 - Concurrent set logging can duplicate setNumber.  A session shows the
   number of stored sets of the workout exercise plus one and sends it to
   logSet; the insert of createSet for a stored workout exercise stores a new
   row with exactly that setNumber, whatever sets are stored, and no step
   changes the setNumber of a stored set.  So two sessions of the owner that
   showed the same count both insert, and the workout exercise has two sets
   with the same setNumber. *)
C24_DuplicateSetNumber ==
    [][/\ \A p \in Processes :
            /\ (~InFlight(p) /\ pending'[p].pc = "rendered")
                 => pending'[p].nextSetNumber = nextSetNumber(pending'[p].id)
            /\ (pending[p].pc = "rendered" /\ pending'[p].pc = "insert")
                 => /\ pending'[p].setNumber = pending[p].nextSetNumber
                    /\ pending'[p].id = pending[p].id
            /\ (/\ pending[p].pc = "insert"
                /\ pending'[p] # pending[p]
                /\ pending[p].id \in Ids(workoutExercises))
                 => /\ ret'.out.kind = "row"
                    /\ ret'.out.row.setNumber = pending[p].setNumber
                    /\ ret'.out.row.workoutExerciseId = pending[p].id
                    /\ ret'.out.row \notin sets
                    /\ sets' = sets \cup {ret'.out.row}
       /\ \A s \in sets : \A t \in sets' : t.id = s.id => t.setNumber = s.setNumber]_vars

\* the only two sets ever logged have the same workout exercise and setNumber
C24_Witness ==
    /\ setsSeq = 2
    /\ \E a, b \in sets : /\ a.id # b.id
                          /\ a.workoutExerciseId = b.workoutExerciseId
                          /\ a.setNumber = b.setNumber

-----------------------------------------------------------------------------
\* the positions of the list at which the row with this id stands
C25_Positions(list, id) == {i \in DOMAIN list : list[i].id = id}

(* C25 - Tree shape of getWorkoutExercisesWithSets.  The list returned for an
   owned workout has every workout exercise of that workout exactly once,
   with its columns, and nothing else; under each workout exercise every
   set that references it exactly once and no other set (the empty list when
   it has none), sorted by setNumber ascending; and the workout exercises
   stand by order ascending. *)
C25_TreeShape ==
    (ret.op = "getWorkoutExercisesWithSets" /\ ret.out.kind = "rows")
      => LET list == ret.out.row.list
             mine == {we \in workoutExercises : we.workoutId = ret.id}
         IN /\ \A we \in mine : Cardinality(C25_Positions(list, we.id)) = 1
            /\ \A i \in DOMAIN list :
                  /\ \E we \in mine :
                        /\ we.id = list[i].id
                        /\ we.workoutId = list[i].workoutId
                        /\ we.exerciseId = list[i].exerciseId
                        /\ we.order = list[i].order
                  /\ \A s \in {x \in sets : x.workoutExerciseId = list[i].id} :
                        Cardinality({k \in DOMAIN list[i].sets : list[i].sets[k] = s}) = 1
                  /\ \A k \in DOMAIN list[i].sets :
                        /\ list[i].sets[k] \in sets
                        /\ list[i].sets[k].workoutExerciseId = list[i].id
                  /\ \A k, l \in DOMAIN list[i].sets :
                        k < l => list[i].sets[k].setNumber <= list[i].sets[l].setNumber
            /\ \A i, j \in DOMAIN list : i < j => list[i].order <= list[j].order

\* alice's workout read as two workout exercises, the first with set 2 before
\* set 1 (by setNumber), the second without sets, while bob's workout has one too
C25_Witness ==
    /\ ret.op = "getWorkoutExercisesWithSets"
    /\ ret.userId = "alice"
    /\ ret.out.kind = "rows"
    /\ Len(ret.out.row.list) = 2
    /\ Len(ret.out.row.list[1].sets) = 2
    /\ ret.out.row.list[1].sets[1].id = 2
    /\ ret.out.row.list[1].sets[1].setNumber < ret.out.row.list[1].sets[2].setNumber
    /\ ret.out.row.list[2].sets = <<>>
    /\ \E we \in workoutExercises : we.workoutId = 2

\* the computation gives the results the ownership model reads
C25_SameAsRead ==
    \A u \in Users : \A w \in 1..2 :
        getWorkoutExercisesWithSetsResults(workouts, workoutExercises, exercises, sets, u, w)
          = getWorkoutExercisesWithSets(workouts, workoutExercises, exercises, sets, u, w)

-----------------------------------------------------------------------------
(* C26 - No swallowed failure on delete.  deleteSetAction and removeExercise
   answer {success: true} only when the delete statement of that call
   deleted the targeted row; a delete that matched no row is answered with a
   failure. *)
C26_NoSwallowedFailure ==
    (ret.op \in {"deleteSetAction", "removeExercise"} /\ ret.out = Success)
      => \E r \in ret.deleted : r.id = ret.id

-----------------------------------------------------------------------------
(* C27 - Exercises are shared across users.  getAllExercises returns every
   stored exercise row to whichever user calls it; an exercise row, once
   created, stays as it is; and when addExercise of any user gets or
   creates an exercise whose trimmed name a stored row has, whoever created
   it, the call returns that row, creates none, and the workout exercise
   then inserted references its id. *)
C27_SharedExercises ==
    /\ [](ret.op = "getAllExercises"
            => /\ ret.out.kind = "rows"
               /\ {ret.out.row.list[i] : i \in DOMAIN ret.out.row.list} = exercises
               /\ Len(ret.out.row.list) = Cardinality(exercises))
    /\ [][/\ exercises \subseteq exercises'
          /\ (Awaits("getOrCreateExercise") /\ request' # request)
               => \A e \in exercises :
                     e.name = Trim(request.input.exerciseName)
                       => /\ ret'.out = Row(e)
                          /\ request'.exerciseId = e.id
                          /\ exercises' = exercises
          /\ (Awaits("addExerciseToWorkout") /\ request' # request
                 /\ ret'.out.kind = "row")
               => ret'.out.row.exerciseId = request.exerciseId]_vars

\* one exercise was ever created, by the first addExercise, which was alice's;
\* bob's addExercise of " s " has given his workout a workout exercise of it
C27_Witness ==
    /\ Settled
    /\ request.session = "bob"
    /\ request.input.exerciseName = <<"_", "s", "_">>
    /\ request.response = Success
    /\ exercisesSeq = 1
    /\ workoutExercises = {[id |-> 1, workoutId |-> 1, exerciseId |-> 1, order |-> 0],
                           [id |-> 2, workoutId |-> 2, exerciseId |-> 1, order |-> 0]}

(* C30 - addExercise with a workout the caller does not own, or that does not
   exist, calls getWorkoutByIdForUser and nothing after it, fails with
   'Workout not found', and while it runs no exercise row and no workout
   exercise row is created. *)
C30_AddExerciseNotOwned ==
    /\ []((/\ request.action = "addExercise"
            /\ request.session # Unauthenticated
            /\ addExerciseSchema(request.input)
            /\ getWorkoutByIdForUser(workouts, request.session,
                                     request.input.workoutId).kind # "row")
           => /\ \A i \in DOMAIN request.calls :
                    request.calls[i] \notin {"getOrCreateExercise",
                                             "addExerciseToWorkout"}
              /\ Settled => /\ request.response = Failure(ErrActionWorkoutNotFound)
                            /\ request.calls =
                                  <<"auth", "parse", "getWorkoutByIdForUser">>)
    /\ [][(/\ request'.action = "addExercise"
            /\ request'.session # Unauthenticated
            /\ addExerciseSchema(request'.input)
            /\ getWorkoutByIdForUser(workouts, request'.session,
                                     request'.input.workoutId).kind # "row")
           => /\ exercises' = exercises
              /\ workoutExercises' = workoutExercises
              /\ exercisesSeq' = exercisesSeq
              /\ workoutExercisesSeq' = workoutExercisesSeq]_vars

\* bob's addExercise into alice's workout has failed, the tables still empty
C30_Witness ==
    /\ Settled
    /\ request.action = "addExercise"
    /\ request.session = "bob"
    /\ request.input.workoutId = 1
    /\ request.response = Failure(ErrActionWorkoutNotFound)
    /\ exercises = {}
    /\ workoutExercises = {}

\* alice's addExercise into a workout that does not exist has failed
C30_WitnessMissing ==
    /\ Settled
    /\ request.action = "addExercise"
    /\ request.session = "alice"
    /\ request.input.workoutId \notin Ids(workouts)
    /\ request.response = Failure(ErrActionWorkoutNotFound)

-----------------------------------------------------------------------------
(* C28 - Referential integrity.  In every reachable state, under every
   interleaving of the statements of the calls, each set references a stored
   workout exercise and each workout exercise references a stored workout
   and a stored exercise.  The insert of createSet or addExerciseToWorkout
   whose parent was deleted after its ownership check fails and stores no
   row. *)
C28_ReferentialIntegrity ==
    /\ [](/\ \A s \in sets : s.workoutExerciseId \in Ids(workoutExercises)
          /\ \A we \in workoutExercises :
                /\ we.workoutId \in Ids(workouts)
                /\ we.exerciseId \in Ids(exercises))
    /\ [][\A p \in Processes :
            (pending[p].pc = "insert" /\ pending'[p] = Idle)
              => /\ (pending[p].op = "createSet"
                       /\ pending[p].id \notin Ids(workoutExercises))
                      => /\ ret'.out = Throws(ErrForeignKey)
                         /\ sets' = sets
                 /\ (pending[p].op = "addExerciseToWorkout"
                       /\ pending[p].id \notin Ids(workouts))
                      => /\ ret'.out = Throws(ErrForeignKey)
                         /\ workoutExercises' = workoutExercises]_vars

\* the insert of a createSet failed on the foreign key: the workout exercise
\* its check had found is gone, and no set is stored
C28_Witness ==
    /\ ret.op = "createSet"
    /\ ret.out = Throws(ErrForeignKey)
    /\ ret.id \in 1..workoutExercisesSeq
    /\ ret.id \notin Ids(workoutExercises)
    /\ setsSeq > 0
    /\ sets = {}

-----------------------------------------------------------------------------
(* C29 - Frame of updateSet.  An updateSet that returns a row has changed the
   weightKg and reps of the set with that id to the values given and nothing
   else: the set keeps its id, setNumber and workoutExerciseId, every other
   set is as it was, and workout exercises, workouts, exercises and the
   identities are unchanged. *)
C29_UpdateSetFrame ==
    [][\A p \in Processes :
         (/\ pending[p].pc = "write"
          /\ pending[p].op = "updateSet"
          /\ pending'[p] = Idle
          /\ ret'.out.kind = "row")
           => \E old \in sets :
                 LET new == [id |-> old.id,
                             workoutExerciseId |-> old.workoutExerciseId,
                             setNumber |-> old.setNumber,
                             weightKg |-> pending[p].data.weightKg,
                             reps |-> pending[p].data.reps]
                 IN /\ old.id = pending[p].id
                    /\ ret'.out.row = new
                    /\ sets' = (sets \ {old}) \cup {new}
                    /\ workoutExercises' = workoutExercises
                    /\ workouts' = workouts
                    /\ exercises' = exercises
                    /\ <<workoutsSeq', workoutExercisesSeq', setsSeq', exercisesSeq'>>
                         = <<workoutsSeq, workoutExercisesSeq, setsSeq, exercisesSeq>>]_vars

\* a set was updated while a second set of the same workout exercise keeps
\* the weight and reps it was logged with
C29_Witness ==
    /\ ret.op = "updateSet"
    /\ ret.out.kind = "row"
    /\ ret.out.row \in sets
    /\ ret.out.row.weightKg = 2250
    /\ \E s \in sets : /\ s.id # ret.id
                        /\ s.workoutExerciseId = ret.out.row.workoutExerciseId
                        /\ s.weightKg = 2000
                        /\ s.reps = 5

====
